---- MODULE Spec2Model ----
(***************************************************************************)
(* Settlement core of scroll-tech/revm: the bytecode analyser              *)
(* (interpreter/bytecode.rs), the ledger model (primitives/state.rs), the  *)
(* L1 fee oracle (scroll/l1block.rs) and the settlement handlers           *)
(* (scroll/handler_register.rs, handler/scroll.rs).                        *)
(*                                                                         *)
(* Positions in a byte buffer are 0-based as in the source; a TLA+         *)
(* sequence is 1-based, so the byte at position i is code[i + 1].          *)
(***************************************************************************)
EXTENDS Integers, Sequences, FiniteSets, TLC

VARIABLES
    obj,      \* the bytecode value in hand: a Bytecode or a BytecodeLocked
    bc_op,    \* the bytecode operation that produced obj
    state,    \* journaled state: address -> Account (info.balance, info.nonce, status)
    env,      \* the transaction / block environment
    db,       \* storage of the L1 gas price oracle contract (slots 1, 2, 3)
    l1_block_info, \* context.evm.inner.l1_block_info : Option<L1BlockInfo>
    gas,      \* the Gas the interpreter returned (spent, refunded)
    stage,    \* position of the transaction in the handler pipeline
    ret,      \* what the last settlement handler returned
    scan,     \* the locals of a running Bytecode::analyze and the loop it is in
    build,    \* the cfg of the primitives crate: features and debug_assertions
    account,  \* an Account of the ledger (info, storage, status)
    acc_ret,  \* the last Account / AccountInfo / EvmStorageSlot call and its result
    oracle    \* an L1BlockInfo, the last call made on it and its result

vars == <<obj, bc_op, state, env, db, l1_block_info, gas, stage, ret,
          scan, build, account, acc_ret, oracle>>
bytecode_vars == <<obj, bc_op>>
settle_vars == <<state, env, db, l1_block_info, gas, stage, ret>>
analyze_vars == <<scan>>
account_vars == <<build, account, acc_ret>>
oracle_vars == <<oracle>>

None == [tag |-> "None"]
Some(v) == [tag |-> "Some", val |-> v]

\* what a call returned (a bool, nothing, or the items of an iterator), or the
\* panic that ended it
Returned(v) == [tag |-> "Returned", val |-> v]
Unit == [tag |-> "Unit"]
Yielded(items) == [tag |-> "Yielded", items |-> items]
Panic(msg) == [tag |-> "Panic", msg |-> msg]

(***************************************************************************)
(* Bounds of the model.                                                    *)
(***************************************************************************)
MaxCodeLen == 4

(***************************************************************************)
(* Opcodes and the opcode table (spec_opcode_gas).  The table lives in the *)
(* fork-specification module; the analyser only reads, per opcode, the gas *)
(* cost and the push / gas-block-end / jump-destination flags.             *)
(***************************************************************************)
STOP == 0
ADD == 1
JUMP == 86
JUMPDEST == 91
PUSH1 == 96
PUSH32 == 127

\* the byte values raw code is drawn from
ByteAlphabet == {STOP, ADD, JUMP, JUMPDEST, PUSH1, PUSH32}

opcode_gas(opcode) ==
    IF opcode >= PUSH1 /\ opcode <= PUSH32
    THEN [gas |-> 3, is_push |-> TRUE, is_gas_block_end |-> FALSE, is_jump |-> FALSE]
    ELSE IF opcode = JUMPDEST
    THEN [gas |-> 0, is_push |-> FALSE, is_gas_block_end |-> TRUE, is_jump |-> TRUE]
    ELSE IF opcode = JUMP
    THEN [gas |-> 8, is_push |-> FALSE, is_gas_block_end |-> TRUE, is_jump |-> FALSE]
    ELSE IF opcode = STOP
    THEN [gas |-> 0, is_push |-> FALSE, is_gas_block_end |-> TRUE, is_jump |-> FALSE]
    ELSE [gas |-> 3, is_push |-> FALSE, is_gas_block_end |-> FALSE, is_jump |-> FALSE]

(***************************************************************************)
(* Identity hashes.  A digest is modelled as an injective function of the  *)
(* bytes it is computed over.                                              *)
(***************************************************************************)
hash_code_poseidon(code) == <<"poseidon", code>>
keccak256(code) == <<"keccak", code>>
POSEIDON_EMPTY == <<"poseidon", <<>>>>
KECCAK_EMPTY == <<"keccak", <<>>>>

(***************************************************************************)
(* Bytecode::analyze                                                       *)
(***************************************************************************)
AnalysisData_none == [is_jump |-> FALSE, gas_block |-> 0]

\* vec![x; n]
Repeat(x, n) == [i \in 1..n |-> x]

\* a push that does not skip its operand
push_step_no_skip(opcode) == 1

\* ((opcode - opcode::PUSH1) + 2) as usize
push_step(opcode) == (opcode - PUSH1) + 2

\* jumps.get_mut(pos).unwrap().set_is_jump(): panics when pos is out of range
set_is_jump(st, pos) ==
    IF pos >= 0 /\ pos < Len(st.jumps)
    THEN [st EXCEPT !.jumps[pos + 1].is_jump = TRUE]
    ELSE [st EXCEPT !.panicked = TRUE]

\* jumps.get_mut(pos).unwrap().set_gas_block(g)
set_gas_block(st, pos, g) ==
    IF pos >= 0 /\ pos < Len(st.jumps)
    THEN [st EXCEPT !.jumps[pos + 1].gas_block = g]
    ELSE [st EXCEPT !.panicked = TRUE]

\* the opcode table has one entry per value of a byte
OpcodeTableLen == 256

\* the loops run one iteration too many
scan_continues_past_end(code, st) == st.index <= Len(code)

\* while index < code.len()
scan_continues(code, st) == st.index < Len(code)

\* *code.get(index).unwrap() and opcode_gas.get(opcode as usize).unwrap(): both
\* panic when the position is out of range
reads_in_range(code, index) ==
    /\ index >= 0
    /\ index < Len(code)
    /\ code[index + 1] >= 0
    /\ code[index + 1] < OpcodeTableLen

\* the first loop without its set_is_jump: a block that ends the first gas block
\* is never flagged
first_gas_block_step_no_flag(code, st) ==
    IF ~reads_in_range(code, st.index)
    THEN [st EXCEPT !.panicked = TRUE]
    ELSE LET opcode == code[st.index + 1]
             info == opcode_gas(opcode)
             index == st.index + (IF info.is_push THEN push_step(opcode) ELSE 1)
             st1 == [st EXCEPT !.first_gas_block = @ + info.gas, !.index = index]
         IN  IF info.is_gas_block_end
             THEN [st1 EXCEPT !.block_start = index - 1, !.broke = TRUE]
             ELSE st1

\* one iteration of the first loop of analyze; broke records its `break`
first_gas_block_step(code, st) ==
    IF ~reads_in_range(code, st.index)
    THEN [st EXCEPT !.panicked = TRUE]
    ELSE LET opcode == code[st.index + 1]
             info == opcode_gas(opcode)
             index == st.index + (IF info.is_push THEN push_step(opcode) ELSE 1)
             st1 == [st EXCEPT !.first_gas_block = @ + info.gas, !.index = index]
         IN  IF info.is_gas_block_end
             THEN LET st2 == [st1 EXCEPT !.block_start = index - 1, !.broke = TRUE]
                  IN  IF info.is_jump THEN set_is_jump(st2, index - 1) ELSE st2
             ELSE st1

\* the first loop of analyze: up to and including the first block-ending instruction
RECURSIVE first_gas_block_loop(_, _)
first_gas_block_loop(code, st) ==
    IF scan_continues(code, st) /\ ~st.panicked /\ ~st.broke
    THEN first_gas_block_loop(code, first_gas_block_step(code, st))
    ELSE st

\* one iteration of the second loop of analyze
gas_block_step(code, st) ==
    IF ~reads_in_range(code, st.index)
    THEN [st EXCEPT !.panicked = TRUE]
    ELSE LET opcode == code[st.index + 1]
             info == opcode_gas(opcode)
             g == st.gas_in_block + info.gas
         IN  IF info.is_gas_block_end
             THEN LET st1 == IF info.is_jump THEN set_is_jump(st, st.index) ELSE st
                      st2 == set_gas_block(st1, st.block_start, g)
                  IN  [st2 EXCEPT !.block_start = st.index,
                                  !.gas_in_block = 0,
                                  !.index = st.index + 1]
             ELSE [st EXCEPT !.gas_in_block = g,
                             !.index = @ + (IF info.is_push THEN push_step(opcode) ELSE 1)]

\* the second loop of analyze: the remaining gas blocks
RECURSIVE gas_block_loop(_, _)
gas_block_loop(code, st) ==
    IF scan_continues(code, st) /\ ~st.panicked
    THEN gas_block_loop(code, gas_block_step(code, st))
    ELSE st

\* the locals of analyze before the first loop
analyze_locals(code) ==
    [index |-> 0, gas_in_block |-> 0, block_start |-> 0,
     first_gas_block |-> 0, jumps |-> Repeat(AnalysisData_none, Len(code)),
     panicked |-> FALSE, broke |-> FALSE]

\* the gas of the trailing block is never written
last_gas_block_dropped(st) == st

\* if gas_in_block != 0 { jumps.get_mut(block_start).unwrap().set_gas_block(..) }
last_gas_block(st) ==
    IF st.gas_in_block # 0 /\ ~st.panicked
    THEN set_gas_block(st, st.block_start, st.gas_in_block)
    ELSE st

analyze_run(code) ==
    last_gas_block(gas_block_loop(code, first_gas_block_loop(code, analyze_locals(code))))

analyze(code) ==
    LET st == analyze_run(code)
    IN  [first_gas_block |-> st.first_gas_block, analysis |-> st.jumps]

(***************************************************************************)
(* Bytecode and BytecodeLocked                                             *)
(***************************************************************************)
Raw == [tag |-> "Raw"]
Checked(len) == [tag |-> "Checked", len |-> len]
Analysed(len, jumptable) == [tag |-> "Analysed", len |-> len, jumptable |-> jumptable]

\* Bytecode::new(): one STOP byte, logical length 0, already analysed
new ==
    [bytecode |-> <<0>>, hash |-> POSEIDON_EMPTY, keccak_hash |-> KECCAK_EMPTY,
     state |-> Analysed(0, [first_gas_block |-> 0, analysis |-> <<AnalysisData_none>>])]

new_raw(bytes) ==
    [bytecode |-> bytes,
     hash |-> IF bytes = <<>> THEN POSEIDON_EMPTY ELSE hash_code_poseidon(bytes),
     keccak_hash |-> IF bytes = <<>> THEN KECCAK_EMPTY ELSE keccak256(bytes),
     state |-> Raw]

\* Bytecode::new_checked.  The caller vouches that the buffer ends with STOP; a
\* hash that is not given is computed over the buffer passed in.
new_checked(bytecode, len, hash, keccak_hash) ==
    [bytecode |-> bytecode,
     hash |-> IF hash = None
              THEN (IF len = 0 THEN POSEIDON_EMPTY ELSE hash_code_poseidon(bytecode))
              ELSE hash.val,
     keccak_hash |-> IF keccak_hash = None
                     THEN (IF len = 0 THEN KECCAK_EMPTY ELSE keccak256(bytecode))
                     ELSE keccak_hash.val,
     state |-> Checked(len)]

\* Bytecode::new_analysed
new_analysed(bytecode, len, jumptable, hash, keccak_hash) ==
    [bytecode |-> bytecode,
     hash |-> IF hash = None
              THEN (IF len = 0 THEN POSEIDON_EMPTY ELSE hash_code_poseidon(bytecode))
              ELSE hash.val,
     keccak_hash |-> IF keccak_hash = None
                     THEN (IF len = 0 THEN KECCAK_EMPTY ELSE keccak256(bytecode))
                     ELSE keccak_hash.val,
     state |-> Analysed(len, jumptable)]

\* one byte of padding too few
resize_32(bytes) == bytes \o Repeat(0, 32)

\* bytecode.resize(len + 33, 0)
resize_33(bytes) == bytes \o Repeat(0, 33)

\* pads whatever the state is
to_checked_always_pads(self) ==
    [bytecode |-> resize_33(self.bytecode), hash |-> self.hash,
     keccak_hash |-> self.keccak_hash,
     state |-> IF self.state.tag = "Raw" THEN Checked(Len(self.bytecode)) ELSE self.state]

to_checked(self) ==
    IF self.state.tag = "Raw"
    THEN [bytecode |-> resize_33(self.bytecode), hash |-> self.hash,
          keccak_hash |-> self.keccak_hash, state |-> Checked(Len(self.bytecode))]
    ELSE self

\* analyses the logical code only, not the padded buffer
to_analysed_logical_code(self) ==
    IF self.state.tag = "Analysed"
    THEN self
    ELSE LET bytecode == IF self.state.tag = "Raw"
                         THEN resize_33(self.bytecode) ELSE self.bytecode
             len == IF self.state.tag = "Raw" THEN Len(self.bytecode) ELSE self.state.len
         IN  [bytecode |-> bytecode, hash |-> self.hash, keccak_hash |-> self.keccak_hash,
              state |-> Analysed(len, analyze(SubSeq(bytecode, 1, len)))]

to_analysed(self) ==
    IF self.state.tag = "Analysed"
    THEN self
    ELSE LET bytecode == IF self.state.tag = "Raw"
                         THEN to_checked(self).bytecode ELSE self.bytecode
             len == IF self.state.tag = "Raw" THEN Len(self.bytecode) ELSE self.state.len
         IN  [bytecode |-> bytecode, hash |-> self.hash, keccak_hash |-> self.keccak_hash,
              state |-> Analysed(len, analyze(bytecode))]

\* the locked view takes the length of the padded buffer for the logical length
lock_buffer_len(self) ==
    LET a == to_analysed(self)
    IN  [bytecode |-> a.bytecode, len |-> Len(a.bytecode), hash |-> a.hash,
         keccak_hash |-> a.keccak_hash, jumptable |-> a.state.jumptable]

lock(self) ==
    LET a == to_analysed(self)
    IN  [bytecode |-> a.bytecode, len |-> a.state.len, hash |-> a.hash,
         keccak_hash |-> a.keccak_hash, jumptable |-> a.state.jumptable]

\* hands the code back as checked only, dropping the table
unlock_to_checked(self) ==
    [bytecode |-> self.bytecode, hash |-> self.hash, keccak_hash |-> self.keccak_hash,
     state |-> Checked(self.len)]

unlock(self) ==
    [bytecode |-> self.bytecode, hash |-> self.hash, keccak_hash |-> self.keccak_hash,
     state |-> Analysed(self.len, self.jumptable)]

\* Bytecode::is_empty
Bytecode_is_empty(self) ==
    IF self.state.tag = "Raw" THEN Len(self.bytecode) = 0 ELSE self.state.len = 0

\* BytecodeLocked::len and BytecodeLocked::is_empty
BytecodeLocked_len(self) == self.len
BytecodeLocked_is_empty(self) == self.len = 0

\* the whole buffer, terminator padding included, in place of the logical code
original_bytecode_slice_whole(self) == Returned(self.bytecode)

\* BytecodeLocked::original_bytecode_slice: &bytecode[..len], which panics when len
\* is beyond the buffer
original_bytecode_slice(self) ==
    IF self.len <= Len(self.bytecode)
    THEN Returned(SubSeq(self.bytecode, 1, self.len))
    ELSE Panic("range end index out of range for slice")

\* the analysis state of the value in hand
StateTag == IF obj.kind = "Locked" THEN "Locked" ELSE obj.val.state.tag

RECURSIVE SeqsUpTo(_, _)
SeqsUpTo(S, n) ==
    IF n = 0 THEN {<<>>}
    ELSE LET shorter == SeqsUpTo(S, n - 1)
         IN  shorter \cup {Append(s, b) : s \in {t \in shorter : Len(t) = n - 1}, b \in S}

Codes == SeqsUpTo(ByteAlphabet, MaxCodeLen)

InitBytecode ==
    /\ obj = [kind |-> "Bytecode", val |-> new]
    /\ bc_op = "new"

New ==
    /\ obj' = [kind |-> "Bytecode", val |-> new]
    /\ bc_op' = "new"
    /\ UNCHANGED <<settle_vars, analyze_vars, account_vars, oracle_vars>>

\* a code body is constructed once, in place of the default value
NewRaw ==
    /\ obj = [kind |-> "Bytecode", val |-> new]
    /\ \E bytes \in Codes :
        obj' = [kind |-> "Bytecode", val |-> new_raw(bytes)]
    /\ bc_op' = "new_raw"
    /\ UNCHANGED <<settle_vars, analyze_vars, account_vars, oracle_vars>>

\* the hashes a caller of new_checked or new_analysed passes: none, or the hashes
\* of the code as new_raw computes them
PrecomputedHashes(code) ==
    {[hash |-> None, keccak_hash |-> None],
     [hash |-> Some(new_raw(code).hash), keccak_hash |-> Some(new_raw(code).keccak_hash)]}

\* new_checked on a code followed by its terminator padding, as its safety
\* contract asks
NewChecked ==
    /\ obj = [kind |-> "Bytecode", val |-> new]
    /\ \E code \in Codes :
       \E h \in PrecomputedHashes(code) :
            obj' = [kind |-> "Bytecode",
                    val |-> new_checked(resize_33(code), Len(code), h.hash, h.keccak_hash)]
    /\ bc_op' = "new_checked"
    /\ UNCHANGED <<settle_vars, analyze_vars, account_vars, oracle_vars>>

\* new_analysed on a padded code and the jump table of that buffer
NewAnalysed ==
    /\ obj = [kind |-> "Bytecode", val |-> new]
    /\ \E code \in Codes :
       \E h \in PrecomputedHashes(code) :
            obj' = [kind |-> "Bytecode",
                    val |-> new_analysed(resize_33(code), Len(code),
                                         analyze(resize_33(code)), h.hash, h.keccak_hash)]
    /\ bc_op' = "new_analysed"
    /\ UNCHANGED <<settle_vars, analyze_vars, account_vars, oracle_vars>>

ToChecked ==
    /\ obj.kind = "Bytecode"
    /\ obj' = [kind |-> "Bytecode", val |-> to_checked(obj.val)]
    /\ bc_op' = "to_checked"
    /\ UNCHANGED <<settle_vars, analyze_vars, account_vars, oracle_vars>>

ToAnalysed ==
    /\ obj.kind = "Bytecode"
    /\ obj' = [kind |-> "Bytecode", val |-> to_analysed(obj.val)]
    /\ bc_op' = "to_analysed"
    /\ UNCHANGED <<settle_vars, analyze_vars, account_vars, oracle_vars>>

Lock ==
    /\ obj.kind = "Bytecode"
    /\ obj' = [kind |-> "Locked", val |-> lock(obj.val)]
    /\ bc_op' = "lock"
    /\ UNCHANGED <<settle_vars, analyze_vars, account_vars, oracle_vars>>

Unlock ==
    /\ obj.kind = "Locked"
    /\ obj' = [kind |-> "Bytecode", val |-> unlock(obj.val)]
    /\ bc_op' = "unlock"
    /\ UNCHANGED <<settle_vars, analyze_vars, account_vars, oracle_vars>>

\* the locked view is asked for the original code; the answer is kept with it
OriginalBytecodeSlice ==
    /\ obj.kind = "Locked"
    /\ obj' = [kind |-> "Locked", val |-> obj.val,
               slice |-> original_bytecode_slice(obj.val)]
    /\ bc_op' = "original_bytecode_slice"
    /\ UNCHANGED <<settle_vars, analyze_vars, account_vars, oracle_vars>>

NextBytecode ==
    New \/ NewRaw \/ NewChecked \/ NewAnalysed \/ ToChecked \/ ToAnalysed \/ Lock
    \/ Unlock \/ OriginalBytecodeSlice

(***************************************************************************)
(* Bytecode::analyze, one loop iteration at a time.  scan.phase is the     *)
(* position of the call: "idle" (no call), "first" (the first loop),       *)
(* "rest" (the second loop), "done" (returned), "panicked" (an unwrap of   *)
(* None).                                                                  *)
(***************************************************************************)
InitAnalyze ==
    scan = [phase |-> "idle", code |-> <<>>, st |-> analyze_locals(<<>>)]

\* analyze is called on a byte sequence; a behaviour follows that one call
AnalyzeCall ==
    /\ scan.phase = "idle"
    /\ \E code \in Codes :
        scan' = [phase |-> "first", code |-> code, st |-> analyze_locals(code)]
    /\ UNCHANGED <<bytecode_vars, settle_vars, account_vars, oracle_vars>>

FirstGasBlockStep ==
    /\ scan.phase = "first"
    /\ scan_continues(scan.code, scan.st)
    /\ LET st == first_gas_block_step(scan.code, scan.st)
       IN  scan' = [scan EXCEPT !.st = st,
                                !.phase = IF st.panicked THEN "panicked"
                                          ELSE IF st.broke THEN "rest" ELSE "first"]
    /\ UNCHANGED <<bytecode_vars, settle_vars, account_vars, oracle_vars>>

\* the first loop ends at the end of the code, without a break
FirstGasBlockExit ==
    /\ scan.phase = "first"
    /\ ~scan_continues(scan.code, scan.st)
    /\ scan' = [scan EXCEPT !.phase = "rest"]
    /\ UNCHANGED <<bytecode_vars, settle_vars, account_vars, oracle_vars>>

GasBlockStep ==
    /\ scan.phase = "rest"
    /\ scan_continues(scan.code, scan.st)
    /\ LET st == gas_block_step(scan.code, scan.st)
       IN  scan' = [scan EXCEPT !.st = st,
                                !.phase = IF st.panicked THEN "panicked" ELSE "rest"]
    /\ UNCHANGED <<bytecode_vars, settle_vars, account_vars, oracle_vars>>

\* the second loop ends, the last gas block is written and analyze returns
AnalyzeReturn ==
    /\ scan.phase = "rest"
    /\ ~scan_continues(scan.code, scan.st)
    /\ LET st == last_gas_block(scan.st)
       IN  scan' = [scan EXCEPT !.st = st,
                                !.phase = IF st.panicked THEN "panicked" ELSE "done"]
    /\ UNCHANGED <<bytecode_vars, settle_vars, account_vars, oracle_vars>>

NextAnalyze ==
    AnalyzeCall \/ FirstGasBlockStep \/ FirstGasBlockExit \/ GasBlockStep \/ AnalyzeReturn

(***************************************************************************)
(* Fixed-width integers.  U256 and u64 are scaled to the integer range of  *)
(* the model checker: MaxU256 stands for U256::MAX and MaxU64 for u64::MAX.*)
(***************************************************************************)
MaxU256 == 2147483647
MaxU64 == 65535

\* wraps around instead of saturating
saturating_add_wraps(a, b) == IF a > MaxU256 - b THEN (a - (MaxU256 - b)) - 1 ELSE a + b

saturating_add(a, b) == IF a > MaxU256 - b THEN MaxU256 ELSE a + b
saturating_sub(a, b) == IF b > a THEN 0 ELSE a - b
saturating_mul(a, b) ==
    IF a = 0 \/ b = 0 THEN 0
    ELSE IF a > MaxU256 \div b THEN MaxU256 ELSE a * b
wrapping_div(a, b) == a \div b
\* a + b modulo MaxU256 + 1
wrapping_add(a, b) == IF a > MaxU256 - b THEN (a - (MaxU256 - b)) - 1 ELSE a + b
\* U256 `*` (ruint: wrapping), the right operand converted from a u64
RECURSIVE wrapping_mul(_, _)
wrapping_mul(a, n) == IF n = 0 THEN 0 ELSE wrapping_add(wrapping_mul(a, n - 1), a)
\* u64::saturating_add
u64_saturating_add(a, b) == IF a > MaxU64 - b THEN MaxU64 ELSE a + b

(***************************************************************************)
(* L1 fee oracle (scroll/l1block.rs)                                       *)
(***************************************************************************)
ZERO_BYTE_COST == 4
NON_ZERO_BYTE_COST == 16
TX_L1_COMMIT_EXTRA_COST == 64
TX_L1_FEE_PRECISION == 1000000000
L1_BASE_FEE_SLOT == 1
L1_OVERHEAD_SLOT == 2
L1_SCALAR_SLOT == 3

\* every byte is charged as a non-zero byte
data_gas_flat(input) == Len(input) * NON_ZERO_BYTE_COST

RECURSIVE data_gas(_)
data_gas(input) ==
    IF input = <<>> THEN 0
    ELSE data_gas(SubSeq(input, 1, Len(input) - 1))
         + (IF input[Len(input)] = 0 THEN ZERO_BYTE_COST ELSE NON_ZERO_BYTE_COST)

calculate_tx_l1_cost(self, input) ==
    wrapping_div(
        saturating_mul(
            saturating_mul(
                saturating_add(saturating_add(data_gas(input), self.l1_fee_overhead),
                               TX_L1_COMMIT_EXTRA_COST),
                self.l1_base_fee),
            self.l1_base_fee_scalar),
        TX_L1_FEE_PRECISION)

\* the error the backing store raises for the read of one slot (a DB::Error)
DbError(index) == [read |-> index]

\* the three reads answer with the error of the last read that fails, after making
\* all of them
try_fetch_last_error(storage, failing) ==
    LET storage_read(index) ==
            IF index \in failing THEN [tag |-> "Err", err |-> DbError(index)]
            ELSE [tag |-> "Ok", val |-> storage[index]]
        l1_base_fee == storage_read(L1_BASE_FEE_SLOT)
        l1_fee_overhead == storage_read(L1_OVERHEAD_SLOT)
        l1_base_fee_scalar == storage_read(L1_SCALAR_SLOT)
    IN  IF l1_base_fee_scalar.tag = "Err" THEN l1_base_fee_scalar
        ELSE IF l1_fee_overhead.tag = "Err" THEN l1_fee_overhead
        ELSE IF l1_base_fee.tag = "Err" THEN l1_base_fee
        ELSE [tag |-> "Ok",
              val |-> [l1_base_fee |-> l1_base_fee.val,
                       l1_fee_overhead |-> l1_fee_overhead.val,
                       l1_base_fee_scalar |-> l1_base_fee_scalar.val]]

\* L1BlockInfo::try_fetch.  storage: the slots of the oracle contract; failing: the
\* slots whose db.storage(L1_GAS_PRICE_ORACLE_ADDRESS, slot) read fails.  Each read
\* is followed by `?`, so the first failing read ends the call with its error.
try_fetch(storage, failing) ==
    LET storage_read(index) ==
            IF index \in failing THEN [tag |-> "Err", err |-> DbError(index)]
            ELSE [tag |-> "Ok", val |-> storage[index]]
        l1_base_fee == storage_read(L1_BASE_FEE_SLOT)
        l1_fee_overhead == storage_read(L1_OVERHEAD_SLOT)
        l1_base_fee_scalar == storage_read(L1_SCALAR_SLOT)
    IN  IF l1_base_fee.tag = "Err" THEN l1_base_fee
        ELSE IF l1_fee_overhead.tag = "Err" THEN l1_fee_overhead
        ELSE IF l1_base_fee_scalar.tag = "Err" THEN l1_base_fee_scalar
        ELSE [tag |-> "Ok",
              val |-> [l1_base_fee |-> l1_base_fee.val,
                       l1_fee_overhead |-> l1_fee_overhead.val,
                       l1_base_fee_scalar |-> l1_base_fee_scalar.val]]

(***************************************************************************)
(* Account (primitives/state.rs): the fields the settlement handlers touch *)
(***************************************************************************)
mark_touch(self) == [self EXCEPT !.status = @ \cup {"Touched"}]
is_touched(self) == "Touched" \in self.status

(***************************************************************************)
(* Results of the handlers: Result<(), EVMError<DB::Error>>; a panic       *)
(* (Option::expect on None) is a result of its own.                        *)
(***************************************************************************)
Ok == [tag |-> "Ok"]
ErrDatabase == [tag |-> "Err", err |-> "Database"]
\* EVMError::Database(e) made by map_err from the error e of the backing store
ErrDatabaseOf(e) == [tag |-> "Err", err |-> "Database", cause |-> e]
ErrCustom(msg) == [tag |-> "Err", err |-> "Custom", msg |-> msg]
ErrLackOfFundForMaxFee(fee, balance) ==
    [tag |-> "Err", err |-> "LackOfFundForMaxFee", fee |-> fee, balance |-> balance]

(***************************************************************************)
(* mainnet::deduct_caller_inner: debits gas_limit * effective_gas_price    *)
(* from the caller, bumps the nonce of a call and touches the account.     *)
(* It returns nothing, so it cannot report an error.                       *)
(***************************************************************************)
deduct_caller_inner(caller_account, e) ==
    LET gas_cost == saturating_mul(e.gas_limit, e.effective_gas_price)
        debited == [caller_account EXCEPT
                        !.info.balance = saturating_sub(@, gas_cost)]
        bumped == IF e.transact_to = "Call"
                  THEN [debited EXCEPT !.info.nonce = u64_saturating_add(@, 1)]
                  ELSE debited
    IN  mark_touch(bumped)

\* the nonce bump and the touch placed after the branch instead of inside it: an
\* ordinary call is bumped by deduct_caller_inner and once more
deduct_caller_bumps_after_branch(st, e, l1, load_ok) ==
    IF ~load_ok THEN [state |-> st, ret |-> ErrDatabase]
    ELSE LET bump(s) == mark_touch(IF e.transact_to = "Call"
                                   THEN [s EXCEPT !.info.nonce = u64_saturating_add(@, 1)]
                                   ELSE s)
         IN  IF ~e.is_l1_msg
             THEN LET inner == deduct_caller_inner(st[e.caller], e)
                      st1 == [st EXCEPT ![e.caller] = inner]
                  IN  IF e.rlp_bytes = None
                      THEN [state |-> st1,
                            ret |-> ErrCustom("[SCROLL] Failed to load transaction rlp_bytes.")]
                      ELSE IF l1 = None
                      THEN [state |-> st1, ret |-> Panic("L1BlockInfo should be loaded")]
                      ELSE LET tx_l1_cost == calculate_tx_l1_cost(l1.val, e.rlp_bytes.val)
                           IN  IF tx_l1_cost > inner.info.balance
                               THEN [state |-> st1,
                                     ret |-> ErrLackOfFundForMaxFee(tx_l1_cost,
                                                                    inner.info.balance)]
                               ELSE [state |-> [st1 EXCEPT ![e.caller] =
                                                    bump([@ EXCEPT !.info.balance =
                                                        saturating_sub(@, tx_l1_cost)])],
                                     ret |-> Ok]
             ELSE [state |-> [st EXCEPT ![e.caller] = bump(@)], ret |-> Ok]

\* an L1 message that is charged the gas fee like an ordinary transaction
deduct_caller_charges_l1_msg(st, e, l1, load_ok) ==
    IF ~load_ok THEN [state |-> st, ret |-> ErrDatabase]
    ELSE IF ~e.is_l1_msg
    THEN LET inner == deduct_caller_inner(st[e.caller], e)
             st1 == [st EXCEPT ![e.caller] = inner]
         IN  IF e.rlp_bytes = None
             THEN [state |-> st1,
                   ret |-> ErrCustom("[SCROLL] Failed to load transaction rlp_bytes.")]
             ELSE IF l1 = None
             THEN [state |-> st1, ret |-> Panic("L1BlockInfo should be loaded")]
             ELSE LET tx_l1_cost == calculate_tx_l1_cost(l1.val, e.rlp_bytes.val)
                  IN  IF tx_l1_cost > inner.info.balance
                      THEN [state |-> st1,
                            ret |-> ErrLackOfFundForMaxFee(tx_l1_cost, inner.info.balance)]
                      ELSE [state |-> [st1 EXCEPT ![e.caller].info.balance =
                                           saturating_sub(@, tx_l1_cost)],
                            ret |-> Ok]
    ELSE [state |-> [st EXCEPT ![e.caller] = deduct_caller_inner(@, e)], ret |-> Ok]

\* the gas fee is debited before the caller account is known to be loaded, so a
\* failed load leaves a debited caller behind
deduct_caller_debits_before_load(st, e, l1, load_ok) ==
    LET inner == deduct_caller_inner(st[e.caller], e)
        st1 == [st EXCEPT ![e.caller] = inner]
    IN  IF ~e.is_l1_msg
        THEN IF ~load_ok THEN [state |-> st1, ret |-> ErrDatabase]
             ELSE IF e.rlp_bytes = None
             THEN [state |-> st1,
                   ret |-> ErrCustom("[SCROLL] Failed to load transaction rlp_bytes.")]
             ELSE IF l1 = None
             THEN [state |-> st1, ret |-> Panic("L1BlockInfo should be loaded")]
             ELSE LET tx_l1_cost == calculate_tx_l1_cost(l1.val, e.rlp_bytes.val)
                  IN  IF tx_l1_cost > inner.info.balance
                      THEN [state |-> st1,
                            ret |-> ErrLackOfFundForMaxFee(tx_l1_cost, inner.info.balance)]
                      ELSE [state |-> [st1 EXCEPT ![e.caller].info.balance =
                                           saturating_sub(@, tx_l1_cost)],
                            ret |-> Ok]
        ELSE IF ~load_ok THEN [state |-> st, ret |-> ErrDatabase]
        ELSE LET bumped == IF e.transact_to = "Call"
                           THEN [st EXCEPT ![e.caller].info.nonce = u64_saturating_add(@, 1)]
                           ELSE st
             IN  [state |-> [bumped EXCEPT ![e.caller] = mark_touch(@)], ret |-> Ok]

(***************************************************************************)
(* scroll::handler_register::deduct_caller.  load_ok: whether              *)
(* journaled_state.load_account succeeds.  Yields the journaled state the  *)
(* call leaves and its result.                                             *)
(***************************************************************************)
deduct_caller(st, e, l1, load_ok) ==
    IF ~load_ok THEN [state |-> st, ret |-> ErrDatabase]
    ELSE IF ~e.is_l1_msg
    THEN LET inner == deduct_caller_inner(st[e.caller], e)
             st1 == [st EXCEPT ![e.caller] = inner]
         IN  IF e.rlp_bytes = None
             THEN [state |-> st1,
                   ret |-> ErrCustom("[SCROLL] Failed to load transaction rlp_bytes.")]
             ELSE IF l1 = None
             THEN [state |-> st1, ret |-> Panic("L1BlockInfo should be loaded")]
             ELSE LET tx_l1_cost == calculate_tx_l1_cost(l1.val, e.rlp_bytes.val)
                  IN  IF tx_l1_cost > inner.info.balance
                      THEN [state |-> st1,
                            ret |-> ErrLackOfFundForMaxFee(tx_l1_cost, inner.info.balance)]
                      ELSE [state |-> [st1 EXCEPT ![e.caller].info.balance =
                                           saturating_sub(@, tx_l1_cost)],
                            ret |-> Ok]
    ELSE LET bumped == IF e.transact_to = "Call"
                       THEN [st EXCEPT ![e.caller].info.nonce = u64_saturating_add(@, 1)]
                       ELSE st
         IN  [state |-> [bumped EXCEPT ![e.caller] = mark_touch(@)], ret |-> Ok]

\* missing L1 block info or payload replaced by their defaults: the reward goes on
\* with an L1 cost computed from zeros
reward_beneficiary_default_l1_info(st, e, l1, g, load_ok) ==
    IF ~load_ok THEN [state |-> st, ret |-> ErrDatabase]
    ELSE IF ~e.is_l1_msg
    THEN LET info == IF l1 = None
                     THEN [l1_base_fee |-> 0, l1_fee_overhead |-> 0,
                           l1_base_fee_scalar |-> 0]
                     ELSE l1.val
             rlp_bytes == IF e.rlp_bytes = None THEN <<>> ELSE e.rlp_bytes.val
             l1_cost == calculate_tx_l1_cost(info, rlp_bytes)
             touched == [st EXCEPT ![e.coinbase] = mark_touch(@)]
         IN  [state |-> [touched EXCEPT ![e.coinbase].info.balance =
                             saturating_add(
                                 saturating_add(@,
                                     wrapping_mul(e.effective_gas_price,
                                                  g.spent - g.refunded)),
                                 l1_cost)],
              ret |-> Ok]
    ELSE [state |-> st, ret |-> Ok]

\* the reward without the L1 cost: the coinbase gets the gas fee only
reward_beneficiary_skips_l1_cost(st, e, l1, g, load_ok) ==
    IF ~load_ok THEN [state |-> st, ret |-> ErrDatabase]
    ELSE IF ~e.is_l1_msg
    THEN IF l1 = None
         THEN [state |-> st,
               ret |-> ErrCustom("[SCROLL] Failed to load L1 block information.")]
         ELSE IF e.rlp_bytes = None
         THEN [state |-> st,
               ret |-> ErrCustom("[SCROLL] Failed to load transaction rlp_bytes.")]
         ELSE LET touched == [st EXCEPT ![e.coinbase] = mark_touch(@)]
              IN  [state |-> [touched EXCEPT ![e.coinbase].info.balance =
                                  saturating_add(@,
                                      wrapping_mul(e.effective_gas_price,
                                                   g.spent - g.refunded))],
                   ret |-> Ok]
    ELSE [state |-> st, ret |-> Ok]

(***************************************************************************)
(* scroll::handler_register::reward_beneficiary                            *)
(***************************************************************************)
reward_beneficiary(st, e, l1, g, load_ok) ==
    IF ~load_ok THEN [state |-> st, ret |-> ErrDatabase]
    ELSE IF ~e.is_l1_msg
    THEN IF l1 = None
         THEN [state |-> st,
               ret |-> ErrCustom("[SCROLL] Failed to load L1 block information.")]
         ELSE IF e.rlp_bytes = None
         THEN [state |-> st,
               ret |-> ErrCustom("[SCROLL] Failed to load transaction rlp_bytes.")]
         ELSE LET l1_cost == calculate_tx_l1_cost(l1.val, e.rlp_bytes.val)
                  touched == [st EXCEPT ![e.coinbase] = mark_touch(@)]
              IN  [state |-> [touched EXCEPT ![e.coinbase].info.balance =
                                  saturating_add(
                                      saturating_add(@,
                                          wrapping_mul(e.effective_gas_price,
                                                       g.spent - g.refunded)),
                                      l1_cost)],
                   ret |-> Ok]
    ELSE [state |-> st, ret |-> Ok]

\* the credit made with additions that wrap around at U256::MAX
handler_reward_beneficiary_wrapping_add(st, e, g, gas_refund, load_ok) ==
    IF ~load_ok THEN [state |-> st, ret |-> ErrDatabase]
    ELSE LET touched == [st EXCEPT ![e.coinbase] = mark_touch(@)]
         IN  [state |-> [touched EXCEPT ![e.coinbase].info.balance =
                             wrapping_add(
                                 wrapping_add(@,
                                     wrapping_mul(e.effective_gas_price,
                                                  g.spent - gas_refund)),
                                 e.l1_fee)],
              ret |-> Ok]

(***************************************************************************)
(* handler::scroll::reward_beneficiary: the L1 fee is a field of the       *)
(* transaction, the refund an argument.                                    *)
(***************************************************************************)
handler_reward_beneficiary(st, e, g, gas_refund, load_ok) ==
    IF ~load_ok THEN [state |-> st, ret |-> ErrDatabase]
    ELSE LET touched == [st EXCEPT ![e.coinbase] = mark_touch(@)]
         IN  [state |-> [touched EXCEPT ![e.coinbase].info.balance =
                             saturating_add(
                                 saturating_add(@,
                                     wrapping_mul(e.effective_gas_price,
                                                  g.spent - gas_refund)),
                                 e.l1_fee)],
              ret |-> Ok]

(***************************************************************************)
(* The refund of a transaction (handler/scroll.rs calculate_gas_refund).   *)
(* Gas keeps the refund counter as an i64; the handler reads it as a u64.  *)
(***************************************************************************)
MaxGas == 6

\* `x as u64` on an i64
as_u64(x) == IF x < 0 THEN x + MaxU64 + 1 ELSE x

min(a, b) == IF a <= b THEN a ELSE b

\* handler::mainnet::calculate_gas_refund: nothing when refunds are disabled, else
\* the refund counter capped by gas spent over 5 from London on, over 2 before
mainnet_calculate_gas_refund(cfg, g) ==
    IF cfg.is_gas_refund_disabled THEN 0
    ELSE LET max_refund_quotient == IF cfg.london THEN 5 ELSE 2
         IN  min(as_u64(g.refunded), g.spent \div max_refund_quotient)

\* the refund counter handed back as it is
calculate_gas_refund_uncapped(cfg, g) == as_u64(g.refunded)

\* handler::scroll::calculate_gas_refund
calculate_gas_refund(cfg, g) == mainnet_calculate_gas_refund(cfg, g)

(***************************************************************************)
(* One transaction through the handler pipeline.  The transaction, the     *)
(* ledger entries of the caller and of the coinbase and the oracle's       *)
(* storage are inputs; each hook is registered on its own, so a host may   *)
(* run deduct_caller without this module's load_accounts.                  *)
(***************************************************************************)
Address == {"caller", "coinbase"}

CallerBalances == {40, 50, 100, MaxU256}
CallerNonces == {0, MaxU64}
CoinbaseBalances == {0, MaxU256 - 20}
GasLimits == {0, 10}
GasPrices == {0, 5, MaxU256}
L1Fees == {0, 3}
Payloads == {None, Some(<<>>), Some(<<0, 1>>)}
\* slot 1 (base fee), slot 2 (overhead), slot 3 (scalar)
OracleStorages == {<<0, 0, 0>>, <<10000000, 36, 1>>, <<10000000, 36, 2>>,
                   <<MaxU256, MaxU256, MaxU256>>}

Account(balance, nonce, status) ==
    [info |-> [balance |-> balance, nonce |-> nonce], status |-> status]

NoTx ==
    [caller |-> "caller", coinbase |-> "coinbase", transact_to |-> "Call",
     gas_limit |-> 0, effective_gas_price |-> 0, is_l1_msg |-> FALSE,
     rlp_bytes |-> None, l1_fee |-> 0]

InitSettle ==
    /\ state = [a \in Address |-> Account(0, 0, {})]
    /\ env = NoTx
    /\ db = <<0, 0, 0>>
    /\ l1_block_info = None
    /\ gas = [spent |-> 0, refunded |-> 0]
    /\ stage = "idle"
    /\ ret = [op |-> "none", res |-> Ok]

\* a transaction enters the pipeline, validated against the ledger
NewTx ==
    /\ stage = "idle"
    /\ \E cb \in CallerBalances, cn \in CallerNonces, bb \in CoinbaseBalances,
       bs \in {{}, {"Touched"}}, coinbase \in Address, to \in {"Call", "Create"},
       gl \in GasLimits, gp \in GasPrices, l1msg \in BOOLEAN, rlp \in Payloads,
       fee \in L1Fees, storage \in OracleStorages :
        /\ state' = [a \in Address |->
                        IF a = "caller" THEN Account(cb, cn, {}) ELSE Account(bb, 0, bs)]
        /\ env' = [caller |-> "caller", coinbase |-> coinbase, transact_to |-> to,
                   gas_limit |-> gl, effective_gas_price |-> gp, is_l1_msg |-> l1msg,
                   rlp_bytes |-> rlp, l1_fee |-> fee]
        /\ db' = storage
    /\ l1_block_info' = None
    /\ gas' = [spent |-> 0, refunded |-> 0]
    /\ stage' = "start"
    /\ ret' = [op |-> "none", res |-> Ok]
    /\ UNCHANGED <<bytecode_vars, analyze_vars, account_vars, oracle_vars>>

\* the transaction reached a terminal outcome: the surrounding journal commits or
\* discards, and the context is ready for the next transaction
EndTx ==
    /\ stage \in {"rewarded", "failed"}
    /\ state' = [a \in Address |-> Account(0, 0, {})]
    /\ env' = NoTx
    /\ db' = <<0, 0, 0>>
    /\ l1_block_info' = None
    /\ gas' = [spent |-> 0, refunded |-> 0]
    /\ stage' = "idle"
    /\ ret' = [op |-> "none", res |-> Ok]
    /\ UNCHANGED <<bytecode_vars, analyze_vars, account_vars, oracle_vars>>

\* the sets of oracle slots whose read may fail in the backing store
FailingReads == SUBSET {L1_BASE_FEE_SLOT, L1_OVERHEAD_SLOT, L1_SCALAR_SLOT}

\* load_accounts without the assignment of the fetched info to the context
LoadAccounts_drops_info ==
    /\ stage = "start"
    /\ \E failing \in FailingReads :
        LET fetched == try_fetch(db, failing)
        IN  IF fetched.tag = "Ok"
            THEN /\ l1_block_info' = l1_block_info
                 /\ stage' = "loaded"
                 /\ ret' = [op |-> "load_accounts", res |-> Ok, db_errors |-> failing]
            ELSE /\ l1_block_info' = l1_block_info
                 /\ stage' = "failed"
                 /\ ret' = [op |-> "load_accounts", res |-> ErrDatabaseOf(fetched.err),
                            db_errors |-> failing]
    /\ UNCHANGED <<state, env, db, gas>>
    /\ UNCHANGED <<bytecode_vars, analyze_vars, account_vars, oracle_vars>>

\* scroll::handler_register::load_accounts.  db_errors records which reads of the
\* backing store were failing while the call ran.
LoadAccounts ==
    /\ stage = "start"
    /\ \E failing \in FailingReads :
        LET fetched == try_fetch(db, failing)
        IN  IF fetched.tag = "Ok"
            THEN /\ l1_block_info' = Some(fetched.val)
                 /\ stage' = "loaded"
                 /\ ret' = [op |-> "load_accounts", res |-> Ok, db_errors |-> failing]
            ELSE /\ l1_block_info' = l1_block_info
                 /\ stage' = "failed"
                 /\ ret' = [op |-> "load_accounts", res |-> ErrDatabaseOf(fetched.err),
                            db_errors |-> failing]
    /\ UNCHANGED <<state, env, db, gas>>
    /\ UNCHANGED <<bytecode_vars, analyze_vars, account_vars, oracle_vars>>

DeductCaller ==
    /\ stage \in {"start", "loaded"}
    /\ \E load_ok \in BOOLEAN :
        LET r == deduct_caller(state, env, l1_block_info, load_ok)
        IN  /\ state' = r.state
            /\ ret' = [op |-> "deduct_caller", res |-> r.ret, load_ok |-> load_ok]
            /\ stage' = IF r.ret = Ok THEN "deducted" ELSE "failed"
    /\ UNCHANGED <<env, db, l1_block_info, gas>>
    /\ UNCHANGED <<bytecode_vars, analyze_vars, account_vars, oracle_vars>>

\* the handler's default deduct_caller hook, which a host that registers only some
\* of the hooks of scroll_handle_register keeps: mainnet::deduct_caller loads the
\* caller and applies deduct_caller_inner, without reading any L1 data
MainnetDeductCaller ==
    /\ stage \in {"start", "loaded"}
    /\ \E load_ok \in BOOLEAN :
        /\ state' = IF load_ok
                    THEN [state EXCEPT ![env.caller] = deduct_caller_inner(@, env)]
                    ELSE state
        /\ ret' = [op |-> "mainnet_deduct_caller",
                   res |-> IF load_ok THEN Ok ELSE ErrDatabase, load_ok |-> load_ok]
        /\ stage' = IF load_ok THEN "deducted" ELSE "failed"
    /\ UNCHANGED <<env, db, l1_block_info, gas>>
    /\ UNCHANGED <<bytecode_vars, analyze_vars, account_vars, oracle_vars>>

\* the interpreter runs and returns the gas it spent; the refund counter it leaves,
\* negative at times, is capped by calculate_gas_refund before the reward
Execute ==
    /\ stage = "deducted"
    /\ \E spent \in {0, env.gas_limit} :
       \E counter \in {-1, 0, spent}, london \in BOOLEAN :
            LET cfg == [is_gas_refund_disabled |-> FALSE, london |-> london]
                g == [spent |-> spent, refunded |-> counter]
            IN  gas' = [spent |-> spent, refunded |-> calculate_gas_refund(cfg, g)]
    /\ stage' = "executed"
    /\ ret' = [op |-> "execute", res |-> Ok]
    /\ UNCHANGED <<state, env, db, l1_block_info>>
    /\ UNCHANGED <<bytecode_vars, analyze_vars, account_vars, oracle_vars>>

RewardBeneficiary ==
    /\ stage = "executed"
    /\ \E load_ok \in BOOLEAN :
        LET r == reward_beneficiary(state, env, l1_block_info, gas, load_ok)
        IN  /\ state' = r.state
            /\ ret' = [op |-> "reward_beneficiary", res |-> r.ret, load_ok |-> load_ok]
            /\ stage' = IF r.ret = Ok THEN "rewarded" ELSE "failed"
    /\ UNCHANGED <<env, db, l1_block_info, gas>>
    /\ UNCHANGED <<bytecode_vars, analyze_vars, account_vars, oracle_vars>>

HandlerRewardBeneficiary ==
    /\ stage = "executed"
    /\ \E load_ok \in BOOLEAN :
        LET r == handler_reward_beneficiary(state, env, gas, gas.refunded, load_ok)
        IN  /\ state' = r.state
            /\ ret' = [op |-> "handler_reward_beneficiary", res |-> r.ret, load_ok |-> load_ok]
            /\ stage' = IF r.ret = Ok THEN "rewarded" ELSE "failed"
    /\ UNCHANGED <<env, db, l1_block_info, gas>>
    /\ UNCHANGED <<bytecode_vars, analyze_vars, account_vars, oracle_vars>>

NextSettle ==
    NewTx \/ LoadAccounts \/ DeductCaller \/ MainnetDeductCaller \/ Execute
    \/ RewardBeneficiary \/ HandlerRewardBeneficiary \/ EndTx

(***************************************************************************)
(* calculate_gas_refund on its own                                         *)
(***************************************************************************)
\* calculate_gas_refund on the gas a finished interpreter hands over, under any
\* configuration and fork
CalculateGasRefund ==
    /\ \E spent \in 0..MaxGas, refunded \in -1..MaxGas,
          disabled \in BOOLEAN, london \in BOOLEAN :
        LET cfg == [is_gas_refund_disabled |-> disabled, london |-> london]
            g == [spent |-> spent, refunded |-> refunded]
        IN  /\ gas' = g
            /\ ret' = [op |-> "calculate_gas_refund", cfg |-> cfg,
                       val |-> calculate_gas_refund(cfg, g)]
    /\ UNCHANGED <<state, env, db, l1_block_info, stage>>
    /\ UNCHANGED <<bytecode_vars, analyze_vars, account_vars, oracle_vars>>

NextRefund == CalculateGasRefund

(***************************************************************************)
(* The ledger model (primitives/state.rs).  The crate is compiled with or  *)
(* without the features scroll and scroll-poseidon-codehash (the second    *)
(* needs the first: it reads code_size) and with or without                *)
(* debug_assertions.  A field that a build does not have keeps its default *)
(* value and is never read.                                                *)
(***************************************************************************)
Builds ==
    {b \in [scroll : BOOLEAN, poseidon : BOOLEAN, debug_assertions : BOOLEAN] :
        b.poseidon => b.scroll}

\* the build of Init: no feature, no debug assertions
PlainBuild == [scroll |-> FALSE, poseidon |-> FALSE, debug_assertions |-> FALSE]

B256_ZERO == <<"zero">>
\* [1; 32].into()
B256_ONES == <<"ones">>

\* Bytecode::len
Bytecode_len(self) ==
    IF self.state.tag = "Raw" THEN Len(self.bytecode) ELSE self.state.len

\* the code hash AccountInfo::default() carries
default_code_hash(b) == IF b.poseidon THEN POSEIDON_EMPTY ELSE KECCAK_EMPTY

AccountInfo_default(b) ==
    [balance |-> 0, nonce |-> 0, code_size |-> 0, code_hash |-> default_code_hash(b),
     keccak_code_hash |-> KECCAK_EMPTY, code |-> Some(new)]

AccountInfo_new(b, balance, nonce, code_hash, keccak_code_hash, code) ==
    [balance |-> balance, nonce |-> nonce,
     code_size |-> IF b.scroll THEN Bytecode_len(code) ELSE 0,
     code_hash |-> code_hash,
     keccak_code_hash |-> IF b.poseidon THEN keccak_code_hash ELSE KECCAK_EMPTY,
     code |-> Some(code)]

\* the debug assertions hold whatever the code hash is
is_empty_code_hash_unchecked(b, self) ==
    IF b.poseidon
    THEN Returned(self.code_hash = POSEIDON_EMPTY)
    ELSE Returned(self.code_hash = KECCAK_EMPTY)

is_empty_code_hash(b, self) ==
    IF b.poseidon
    THEN IF b.debug_assertions /\ self.code_hash = POSEIDON_EMPTY /\ self.code_size # 0
         THEN Panic("assert_eq!(self.code_size, 0)")
         ELSE IF b.debug_assertions /\ self.code_hash = POSEIDON_EMPTY
                 /\ self.keccak_code_hash # KECCAK_EMPTY
         THEN Panic("assert_eq!(self.keccak_code_hash, KECCAK_EMPTY)")
         ELSE Returned(self.code_hash = POSEIDON_EMPTY)
    ELSE Returned(self.code_hash = KECCAK_EMPTY)

\* the all-zero code hash does not count as empty
AccountInfo_is_empty_without_zero(b, self) ==
    LET h == is_empty_code_hash(b, self)
    IN  IF h.tag = "Panic" THEN h
        ELSE LET code_empty == h.val
             IN  IF b.scroll /\ b.debug_assertions /\ code_empty /\ self.code_size # 0
                 THEN Panic("code size should be zero if code hash is empty")
                 ELSE Returned(code_empty /\ self.balance = 0 /\ self.nonce = 0)

\* AccountInfo::is_empty
AccountInfo_is_empty(b, self) ==
    LET h == is_empty_code_hash(b, self)
    IN  IF h.tag = "Panic" THEN h
        ELSE LET code_empty == h.val \/ self.code_hash = B256_ZERO
             IN  IF b.scroll /\ b.debug_assertions /\ code_empty /\ self.code_size # 0
                 THEN Panic("code size should be zero if code hash is empty")
                 ELSE Returned(code_empty /\ self.balance = 0 /\ self.nonce = 0)

\* Account::is_empty
Account_is_empty(b, self) == AccountInfo_is_empty(b, self.info)

\* the cached code length is part of the comparison
eq_with_code_size(b, self, other) ==
    Returned(/\ self.balance = other.balance
             /\ self.nonce = other.nonce
             /\ self.code_hash = other.code_hash
             /\ self.code_size = other.code_size)

\* impl PartialEq for AccountInfo
eq(b, self, other) ==
    LET equal == /\ self.balance = other.balance
                 /\ self.nonce = other.nonce
                 /\ self.code_hash = other.code_hash
    IN  IF b.debug_assertions /\ b.scroll /\ equal /\ self.code_size # other.code_size
        THEN Panic("assert_eq!(self.code_size, other.code_size)")
        ELSE IF b.debug_assertions /\ b.poseidon /\ equal
                /\ self.keccak_code_hash # other.keccak_code_hash
        THEN Panic("assert_eq!(self.keccak_code_hash, other.keccak_code_hash)")
        ELSE Returned(equal)

\* impl Hash for AccountInfo: what is fed to the Hasher, in order
hash(self) == <<self.balance, self.nonce, self.code_hash>>

\* impl Default for Account
Account_default(b) ==
    [info |-> AccountInfo_default(b), storage |-> <<>>, status |-> {}]

\* Account::new_not_existing
new_not_existing(b) ==
    [info |-> AccountInfo_default(b), storage |-> <<>>, status |-> {"LoadedAsNotExisting"}]

\* impl From<AccountInfo> for Account
Account_from(info) == [info |-> info, storage |-> <<>>, status |-> {}]

\* status |= flag and status -= flag
\* sets the touched bit along with its own
mark_selfdestruct_touches(self) ==
    [self EXCEPT !.status = @ \cup {"SelfDestructed", "Touched"}]

mark_selfdestruct(self) == [self EXCEPT !.status = @ \cup {"SelfDestructed"}]
unmark_selfdestruct(self) == [self EXCEPT !.status = @ \ {"SelfDestructed"}]
unmark_touch(self) == [self EXCEPT !.status = @ \ {"Touched"}]
mark_created(self) == [self EXCEPT !.status = @ \cup {"Created"}]
unmark_created(self) == [self EXCEPT !.status = @ \ {"Created"}]
mark_cold(self) == [self EXCEPT !.status = @ \cup {"Cold"}]

\* clears the bit and reports cold whatever the bit was
mark_warm_always_true(self) ==
    [self |-> [self EXCEPT !.status = @ \ {"Cold"}], ret |-> TRUE]

\* Account::mark_warm: the account afterwards and the bool returned
mark_warm(self) ==
    IF "Cold" \in self.status
    THEN [self |-> [self EXCEPT !.status = @ \ {"Cold"}], ret |-> TRUE]
    ELSE [self |-> self, ret |-> FALSE]

\* EvmStorageSlot::new
EvmStorageSlot_new(original) ==
    [original_value |-> original, present_value |-> original, is_cold |-> FALSE]

\* EvmStorageSlot::new_changed
new_changed(original_value, present_value) ==
    [original_value |-> original_value, present_value |-> present_value,
     is_cold |-> FALSE]

\* EvmStorageSlot::is_changed
is_changed(self) == self.original_value # self.present_value

\* EvmStorageSlot::mark_cold
slot_mark_cold(self) == [self EXCEPT !.is_cold = TRUE]

\* EvmStorageSlot::mark_warm: core::mem::replace(&mut self.is_cold, false)
slot_mark_warm(self) == [self |-> [self EXCEPT !.is_cold = FALSE], ret |-> self.is_cold]

\* storage.iter(): the entries of the map, each once, in the order `order` of its keys
storage_iter(storage, order) == [i \in 1..Len(order) |-> <<order[i], storage[order[i]]>>]

\* the iterator without its filter
changed_storage_slots_unfiltered(self, order) == storage_iter(self.storage, order)

\* Account::changed_storage_slots, collected
changed_storage_slots(self, order) ==
    LET slot_is_changed(entry) == is_changed(entry[2])
    IN  SelectSeq(storage_iter(self.storage, order), slot_is_changed)

\* the values the ledger is exercised with
Balances == {0, 1}
Nonces == {0, 1}
CodeHashes == {KECCAK_EMPTY, POSEIDON_EMPTY, B256_ZERO, B256_ONES}
KeccakCodeHashes == {KECCAK_EMPTY, B256_ONES}
Bytecodes == {new, new_raw(<<1>>)}

InitAccount ==
    /\ build = PlainBuild
    /\ account = Account_default(PlainBuild)
    /\ acc_ret = [op |-> "default", val |-> Unit]

\* Account::default() in a program compiled as build b
AccountDefault ==
    /\ \E b \in Builds :
        /\ build' = b
        /\ account' = Account_default(b)
    /\ acc_ret' = [op |-> "default", val |-> Unit]
    /\ UNCHANGED <<bytecode_vars, settle_vars, analyze_vars, oracle_vars>>

\* account.info = AccountInfo::new(..)
AccountInfoNew ==
    /\ \E balance \in Balances, nonce \in Nonces, code_hash \in CodeHashes,
          keccak_code_hash \in KeccakCodeHashes, code \in Bytecodes :
        account' = [account EXCEPT !.info =
            AccountInfo_new(build, balance, nonce, code_hash, keccak_code_hash, code)]
    /\ acc_ret' = [op |-> "new", val |-> Unit]
    /\ UNCHANGED <<build, bytecode_vars, settle_vars, analyze_vars, oracle_vars>>

\* account.info.balance = v
SetBalance ==
    /\ \E v \in Balances : account' = [account EXCEPT !.info.balance = v]
    /\ acc_ret' = [op |-> "set_balance", val |-> Unit]
    /\ UNCHANGED <<build, bytecode_vars, settle_vars, analyze_vars, oracle_vars>>

\* account.info.nonce = v
SetNonce ==
    /\ \E v \in Nonces : account' = [account EXCEPT !.info.nonce = v]
    /\ acc_ret' = [op |-> "set_nonce", val |-> Unit]
    /\ UNCHANGED <<build, bytecode_vars, settle_vars, analyze_vars, oracle_vars>>

\* account.info.code_hash = h
SetCodeHash ==
    /\ \E h \in CodeHashes : account' = [account EXCEPT !.info.code_hash = h]
    /\ acc_ret' = [op |-> "set_code_hash", val |-> Unit]
    /\ UNCHANGED <<build, bytecode_vars, settle_vars, analyze_vars, oracle_vars>>

IsEmpty ==
    /\ acc_ret' = [op |-> "is_empty", val |-> Account_is_empty(build, account)]
    /\ UNCHANGED <<build, account, bytecode_vars, settle_vars, analyze_vars, oracle_vars>>

\* account.info == other
Eq ==
    /\ \E balance \in Balances, nonce \in Nonces, code_hash \in CodeHashes,
          keccak_code_hash \in KeccakCodeHashes, code \in Bytecodes :
        LET other == AccountInfo_new(build, balance, nonce, code_hash,
                                     keccak_code_hash, code)
        IN  acc_ret' = [op |-> "eq", other |-> other,
                        val |-> eq(build, account.info, other)]
    /\ UNCHANGED <<build, account, bytecode_vars, settle_vars, analyze_vars, oracle_vars>>

NextAccountInfo ==
    AccountDefault \/ AccountInfoNew \/ SetBalance \/ SetNonce \/ SetCodeHash
    \/ IsEmpty \/ Eq

(***************************************************************************)
(* The fee oracle on its own: an L1BlockInfo is fetched, then data_gas and *)
(* calculate_tx_l1_cost are called on payloads.                            *)
(***************************************************************************)
MaxPayloadLen == 2

PayloadBytes == {0, 1, 255}
OraclePayloads == SeqsUpTo(PayloadBytes, MaxPayloadLen)

\* values of the three oracle slots: small ones, the precision, and values at the
\* top of the range
SlotValues == {0, 1, 2, 36, 10000000, TX_L1_FEE_PRECISION, MaxU256 - 64, MaxU256}

InitOracle ==
    oracle = [self |-> [l1_base_fee |-> 0, l1_fee_overhead |-> 0,
                        l1_base_fee_scalar |-> 0],
              input |-> <<>>, op |-> "none", val |-> 0]

\* L1BlockInfo::try_fetch on an oracle contract whose slots hold any three values;
\* the info is fetched once and then only read
TryFetch ==
    /\ oracle.op = "none"
    /\ \E base_fee \in SlotValues, overhead \in SlotValues, scalar \in SlotValues :
        oracle' = [self |-> try_fetch(<<base_fee, overhead, scalar>>, {}).val,
                   input |-> <<>>, op |-> "try_fetch", val |-> 0]
    /\ UNCHANGED <<bytecode_vars, settle_vars, analyze_vars, account_vars>>

DataGas ==
    /\ \E input \in OraclePayloads :
        oracle' = [oracle EXCEPT !.input = input, !.op = "data_gas",
                                 !.val = data_gas(input)]
    /\ UNCHANGED <<bytecode_vars, settle_vars, analyze_vars, account_vars>>

CalculateTxL1Cost ==
    /\ \E input \in OraclePayloads :
        oracle' = [oracle EXCEPT !.input = input, !.op = "calculate_tx_l1_cost",
                                 !.val = calculate_tx_l1_cost(oracle.self, input)]
    /\ UNCHANGED <<bytecode_vars, settle_vars, analyze_vars, account_vars>>

NextOracle == TryFetch \/ DataGas \/ CalculateTxL1Cost

\* storage keys and slot values
StorageKeys == {1, 2}
StorageValues == {0, 1}

\* the orders in which a map with key set S may be iterated
IterationOrders(S) ==
    {order \in [1..Cardinality(S) -> S] :
        \A i, j \in 1..Cardinality(S) : order[i] = order[j] => i = j}

NewNotExisting ==
    /\ account' = new_not_existing(build)
    /\ acc_ret' = [op |-> "new_not_existing", val |-> Unit]
    /\ UNCHANGED <<build, bytecode_vars, settle_vars, analyze_vars, oracle_vars>>

\* Account::from(info)
AccountFrom ==
    /\ \E balance \in Balances :
        account' = Account_from([AccountInfo_default(build) EXCEPT !.balance = balance])
    /\ acc_ret' = [op |-> "from", val |-> Unit]
    /\ UNCHANGED <<build, bytecode_vars, settle_vars, analyze_vars, oracle_vars>>

MarkTouch ==
    /\ account' = mark_touch(account)
    /\ acc_ret' = [op |-> "mark_touch", val |-> Unit]
    /\ UNCHANGED <<build, bytecode_vars, settle_vars, analyze_vars, oracle_vars>>

UnmarkTouch ==
    /\ account' = unmark_touch(account)
    /\ acc_ret' = [op |-> "unmark_touch", val |-> Unit]
    /\ UNCHANGED <<build, bytecode_vars, settle_vars, analyze_vars, oracle_vars>>

MarkSelfdestruct ==
    /\ account' = mark_selfdestruct(account)
    /\ acc_ret' = [op |-> "mark_selfdestruct", val |-> Unit]
    /\ UNCHANGED <<build, bytecode_vars, settle_vars, analyze_vars, oracle_vars>>

UnmarkSelfdestruct ==
    /\ account' = unmark_selfdestruct(account)
    /\ acc_ret' = [op |-> "unmark_selfdestruct", val |-> Unit]
    /\ UNCHANGED <<build, bytecode_vars, settle_vars, analyze_vars, oracle_vars>>

MarkCreated ==
    /\ account' = mark_created(account)
    /\ acc_ret' = [op |-> "mark_created", val |-> Unit]
    /\ UNCHANGED <<build, bytecode_vars, settle_vars, analyze_vars, oracle_vars>>

UnmarkCreated ==
    /\ account' = unmark_created(account)
    /\ acc_ret' = [op |-> "unmark_created", val |-> Unit]
    /\ UNCHANGED <<build, bytecode_vars, settle_vars, analyze_vars, oracle_vars>>

MarkCold ==
    /\ account' = mark_cold(account)
    /\ acc_ret' = [op |-> "mark_cold", val |-> Unit]
    /\ UNCHANGED <<build, bytecode_vars, settle_vars, analyze_vars, oracle_vars>>

MarkWarm ==
    /\ account' = mark_warm(account).self
    /\ acc_ret' = [op |-> "mark_warm", val |-> Returned(mark_warm(account).ret)]
    /\ UNCHANGED <<build, bytecode_vars, settle_vars, analyze_vars, oracle_vars>>

\* account.storage.insert(key, EvmStorageSlot::new(..) or ::new_changed(..))
StorageInsert ==
    /\ \E key \in StorageKeys, original \in StorageValues, present \in StorageValues :
        LET slot == IF original = present THEN EvmStorageSlot_new(original)
                    ELSE new_changed(original, present)
        IN  /\ account' = [account EXCEPT !.storage =
                   [k \in DOMAIN @ \cup {key} |-> IF k = key THEN slot ELSE @[k]]]
            /\ acc_ret' = [op |-> "insert", key |-> key, val |-> Unit]
    /\ UNCHANGED <<build, bytecode_vars, settle_vars, analyze_vars, oracle_vars>>

SlotMarkCold ==
    /\ \E key \in DOMAIN account.storage :
        /\ account' = [account EXCEPT !.storage[key] = slot_mark_cold(@)]
        /\ acc_ret' = [op |-> "slot_mark_cold", key |-> key, val |-> Unit]
    /\ UNCHANGED <<build, bytecode_vars, settle_vars, analyze_vars, oracle_vars>>

SlotMarkWarm ==
    /\ \E key \in DOMAIN account.storage :
        /\ account' = [account EXCEPT !.storage[key] = slot_mark_warm(@).self]
        /\ acc_ret' = [op |-> "slot_mark_warm", key |-> key,
                       val |-> Returned(slot_mark_warm(account.storage[key]).ret)]
    /\ UNCHANGED <<build, bytecode_vars, settle_vars, analyze_vars, oracle_vars>>

\* account.changed_storage_slots().collect(): the map is iterated in some order
ChangedStorageSlots ==
    /\ \E order \in IterationOrders(DOMAIN account.storage) :
        acc_ret' = [op |-> "changed_storage_slots",
                    val |-> Yielded(changed_storage_slots(account, order))]
    /\ UNCHANGED <<build, account, bytecode_vars, settle_vars, analyze_vars, oracle_vars>>

NextAccount ==
    NewNotExisting \/ AccountFrom \/ MarkTouch \/ UnmarkTouch \/ MarkSelfdestruct
    \/ UnmarkSelfdestruct \/ MarkCreated \/ UnmarkCreated \/ MarkCold \/ MarkWarm
    \/ StorageInsert \/ SlotMarkCold \/ SlotMarkWarm \/ ChangedStorageSlots

(***************************************************************************)
(* Specifications                                                          *)
(***************************************************************************)
Init == InitBytecode /\ InitSettle /\ InitAnalyze /\ InitAccount /\ InitOracle

Next ==
    NextBytecode \/ NextSettle \/ NextAnalyze \/ NextAccountInfo \/ NextAccount
    \/ NextOracle \/ NextRefund

Spec == Init /\ [][Next]_vars

\* the gas refund alone
SpecRefund == Init /\ [][NextRefund]_vars

\* the bytecode analyser alone
SpecBytecode == Init /\ [][NextBytecode]_vars

\* the settlement handlers alone
SpecSettle == Init /\ [][NextSettle]_vars

\* the account info alone: construction, field writes, is_empty and ==
SpecAccountInfo == Init /\ [][NextAccountInfo]_vars

\* the account status and storage alone
SpecAccount == Init /\ [][NextAccount]_vars

\* the fee oracle alone
SpecOracle == Init /\ [][NextOracle]_vars

\* analyze alone; the thread that called it runs its next iteration
SpecAnalyze == Init /\ [][NextAnalyze]_vars /\ WF_vars(NextAnalyze)

(***************************************************************************)
(* Properties of the bytecode analyser                                     *)
(***************************************************************************)
\* the value in hand, whichever type holds it
Buffer == obj.val.bytecode
HasLen == StateTag \in {"Checked", "Analysed", "Locked"}
LogicalLen == IF obj.kind = "Locked" THEN obj.val.len ELSE obj.val.state.len
HasTable == StateTag \in {"Analysed", "Locked"}
Table == IF obj.kind = "Locked" THEN obj.val.jumptable.analysis
         ELSE obj.val.state.jumptable.analysis

\* sequential decoding of a buffer: an opcode from 0x60 to 0x7f is a push that is
\* followed by opcode - 0x5f operand bytes
NextPosition(buf, p) ==
    IF buf[p + 1] >= 96 /\ buf[p + 1] <= 127 THEN p + (buf[p + 1] - 95) + 1 ELSE p + 1

RECURSIVE DecodeFrom(_, _, _)
DecodeFrom(buf, p, limit) ==
    IF p >= limit THEN {} ELSE {p} \cup DecodeFrom(buf, NextPosition(buf, p), limit)

\* the positions at which an instruction starts, decoding from position 0
InstructionStarts(buf, limit) == DecodeFrom(buf, 0, limit)

\* C7: a position flagged as a jump destination is the start of an instruction
\* that is a JUMPDEST; no byte inside a push operand is flagged
C7_JumpOnlyAtJumpdestInstruction ==
    HasTable =>
        \A p \in 0..(Len(Table) - 1) :
            Table[p + 1].is_jump =>
                /\ p \in InstructionStarts(Buffer, Len(Buffer))
                /\ Buffer[p + 1] = 91

\* an analysed code with a push operand equal to 0x5b, not flagged, followed by a
\* real JUMPDEST, flagged
C7_Witness ==
    /\ StateTag = "Analysed"
    /\ bc_op = "to_analysed"
    /\ \E p \in 0..(LogicalLen - 1) :
        /\ Buffer[p + 1] = 91
        /\ p \notin InstructionStarts(Buffer, Len(Buffer))
        /\ ~Table[p + 1].is_jump
    /\ \E q \in 0..(LogicalLen - 1) : Table[q + 1].is_jump

C9_DecodingStaysInBuffer ==
    HasLen =>
        /\ \A p \in InstructionStarts(Buffer, LogicalLen) :
               NextPosition(Buffer, p) < Len(Buffer)
        /\ \A i \in LogicalLen..(Len(Buffer) - 1) : Buffer[i + 1] = 0

\* a checked code whose last byte is a PUSH32 with no operand at all
C9_Witness ==
    /\ StateTag = "Checked"
    /\ bc_op = "to_checked"
    /\ LogicalLen >= 1
    /\ (LogicalLen - 1) \in InstructionStarts(Buffer, LogicalLen)
    /\ Buffer[LogicalLen] = 127
    /\ NextPosition(Buffer, LogicalLen - 1) = LogicalLen + 32

\* C10: to_checked turns Raw code of n bytes into Checked{len: n} over the n bytes
\* followed by exactly 33 zero bytes, and returns any other value unchanged
C10_ToCheckedPadsOnce ==
    [][ToChecked =>
          IF obj.val.state.tag = "Raw"
          THEN LET n == Len(obj.val.bytecode)
               IN  /\ obj'.val.state = [tag |-> "Checked", len |-> n]
                   /\ Len(obj'.val.bytecode) = n + 33
                   /\ \A i \in 1..n : obj'.val.bytecode[i] = obj.val.bytecode[i]
                   /\ \A i \in (n + 1)..(n + 33) : obj'.val.bytecode[i] = 0
                   /\ obj'.val.hash = obj.val.hash
                   /\ obj'.val.keccak_hash = obj.val.keccak_hash
          ELSE obj' = obj]_vars

\* to_checked was applied to raw code that is not empty
C10_Witness ==
    /\ bc_op = "to_checked"
    /\ StateTag = "Checked"
    /\ LogicalLen >= 1
    /\ Len(Buffer) = LogicalLen + 33

\* the place of an analysis state along Raw, Checked, Analysed, Locked
StateRank(tag) ==
    CASE tag = "Raw" -> 0
      [] tag = "Checked" -> 1
      [] tag = "Analysed" -> 2
      [] tag = "Locked" -> 3

\* C11: to_checked, to_analysed and lock never move the analysis state backwards
\* along Raw, Checked, Analysed, Locked; lock locks the value that to_analysed
\* returns, which is Analysed; unlock returns an Analysed value
C11_StateOnlyMovesForward ==
    [][/\ (bc_op' \in {"to_checked", "to_analysed", "lock"}
           /\ (ToChecked \/ ToAnalysed \/ Lock)) =>
              StateRank(StateTag') >= StateRank(StateTag)
       /\ (bc_op' = "to_checked" /\ ToChecked) => StateTag' \in {"Checked", "Analysed"}
       /\ (bc_op' = "to_analysed" /\ ToAnalysed) => StateTag' = "Analysed"
       /\ (bc_op' = "lock" /\ Lock) =>
              /\ to_analysed(obj.val).state.tag = "Analysed"
              /\ StateTag' = "Locked"
              /\ unlock(obj'.val) = to_analysed(obj.val)
       /\ (bc_op' = "unlock" /\ Unlock) => StateTag' = "Analysed"]_vars

\* a code that was raw, then locked, has been unlocked
C11_Witness ==
    /\ bc_op = "unlock"
    /\ StateTag = "Analysed"
    /\ LogicalLen >= 1
    /\ Len(Table) = LogicalLen + 33

(***************************************************************************)
(* Properties of Bytecode::analyze                                         *)
(***************************************************************************)
\* C12: analyze never reads the code, the opcode table or the jump table out of
\* range, the scan position strictly increases at every iteration of both loops,
\* and every call returns
C12_AnalyzeIsTotal ==
    /\ [](scan.phase # "panicked" /\ ~scan.st.panicked)
    /\ [][(FirstGasBlockStep \/ GasBlockStep) =>
              /\ scan.st.index < Len(scan.code)
              /\ scan'.st.index > scan.st.index]_vars
    /\ (scan.phase = "first") ~> (scan.phase = "done")

\* analyze returned on a code whose last instruction is a PUSH32 without operand:
\* the scan position ended beyond the end of the code
C12_Witness ==
    /\ scan.phase = "done"
    /\ Len(scan.code) = MaxCodeLen
    /\ scan.st.index > Len(scan.code)
    /\ \E p \in 1..Len(scan.code) : scan.st.jumps[p].is_jump

(***************************************************************************)
(* Properties of the settlement handlers                                   *)
(***************************************************************************)
Caller == state[env.caller]
Coinbase == state[env.coinbase]
IsLackOfFund(r) == r.tag = "Err" /\ r.err = "LackOfFundForMaxFee"

\* C1: when deduct_caller returns LackOfFundForMaxFee for an ordinary transaction,
\* the caller's balance, nonce and status are what they were before the call
C1_LackOfFundLeavesCallerUnchanged ==
    [][(DeductCaller /\ ~env.is_l1_msg /\ IsLackOfFund(ret'.res))
          => state'[env.caller] = state[env.caller]]_vars

\* what the transaction owes: gas_limit * effective_gas_price plus the L1 data fee
TotalCost ==
    saturating_add(saturating_mul(env.gas_limit, env.effective_gas_price),
                   calculate_tx_l1_cost(l1_block_info.val, env.rlp_bytes.val))

\* C2: for an ordinary transaction deduct_caller fails with LackOfFundForMaxFee
\* exactly when the total cost exceeds the balance, and otherwise succeeds and
\* leaves the balance minus the total cost
C2_FailsIffTotalCostExceedsBalance ==
    [][(/\ DeductCaller
        /\ ~env.is_l1_msg
        /\ env.rlp_bytes # None
        /\ l1_block_info # None
        /\ ret'.res # ErrDatabase)
          => IF TotalCost > Caller.info.balance
             THEN IsLackOfFund(ret'.res)
             ELSE /\ ret'.res = Ok
                  /\ state'[env.caller].info.balance = Caller.info.balance - TotalCost]_vars

\* C3 (as stated): a successful deduct_caller adds exactly 1 to the nonce of a
\* call, nothing to the nonce of a create, and leaves the caller touched
C3_NonceBumpedByExactlyOne ==
    [][(DeductCaller /\ ret'.res = Ok)
          => /\ state'[env.caller].info.nonce =
                    Caller.info.nonce + (IF env.transact_to = "Call" THEN 1 ELSE 0)
             /\ "Touched" \in state'[env.caller].status]_vars

\* C3 (amended): the nonce of a call is bumped once and saturates at u64::MAX
C3_NonceBumpedOnceSaturating ==
    [][(DeductCaller /\ ret'.res = Ok)
          => /\ state'[env.caller].info.nonce =
                    (IF env.transact_to = "Call" /\ Caller.info.nonce < MaxU64
                     THEN Caller.info.nonce + 1 ELSE Caller.info.nonce)
             /\ "Touched" \in state'[env.caller].status]_vars

\* an ordinary call went through deduct_caller and its nonce went from 0 to 1
C3_Witness ==
    /\ ret.op = "deduct_caller"
    /\ ret.res = Ok
    /\ ~env.is_l1_msg
    /\ env.transact_to = "Call"
    /\ Caller.info.nonce = 1
    /\ "Touched" \in Caller.status

\* C4: for an L1 message deduct_caller leaves the balance alone and, once the
\* account is loaded, succeeds whatever the fee parameters are, with or without
\* L1BlockInfo and payload
C4_L1MessageBypassesFee ==
    [][(DeductCaller /\ env.is_l1_msg)
          => /\ state'[env.caller].info.balance = Caller.info.balance
             /\ ret'.res \in {Ok, ErrDatabase}]_vars

\* an L1 message whose gas fee exceeds the balance, with neither L1BlockInfo nor
\* payload, went through deduct_caller
C4_Witness ==
    /\ ret.op = "deduct_caller"
    /\ ret.res = Ok
    /\ env.is_l1_msg
    /\ l1_block_info = None
    /\ env.rlp_bytes = None
    /\ env.gas_limit = 10
    /\ env.effective_gas_price = MaxU256
    /\ Caller.info.balance = 40

\* C5: after a successful reward_beneficiary the coinbase is touched
C5_CoinbaseTouchedAfterReward ==
    (ret.op \in {"reward_beneficiary", "handler_reward_beneficiary"} /\ ret.res = Ok)
        => "Touched" \in Coinbase.status

\* C6: reward_beneficiary adds (gas_spent - gas_refunded) * effective_gas_price to
\* the coinbase balance, plus the L1 cost for an ordinary transaction, saturating
C6_RewardAmount ==
    [][(RewardBeneficiary /\ ret'.res = Ok)
          => LET gas_fee == saturating_mul(env.effective_gas_price,
                                           gas.spent - gas.refunded)
                 l1_cost == IF env.is_l1_msg THEN 0
                            ELSE calculate_tx_l1_cost(l1_block_info.val, env.rlp_bytes.val)
             IN  state'[env.coinbase].info.balance =
                     saturating_add(saturating_add(Coinbase.info.balance, gas_fee),
                                    l1_cost)]_vars

(***************************************************************************)
(* Properties of the ledger model                                          *)
(***************************************************************************)
\* the empty-code hash constant of the hashing scheme of build b
CanonicalEmptyHash(b) == IF b.poseidon THEN POSEIDON_EMPTY ELSE KECCAK_EMPTY

ThreeFieldsEmpty(b, info) ==
    /\ info.balance = 0
    /\ info.nonce = 0
    /\ info.code_hash \in {CanonicalEmptyHash(b), B256_ZERO}

\* the debug assertions of is_empty and is_empty_code_hash fail
IsEmptyAborts(b, info) ==
    /\ b.debug_assertions
    /\ \/ /\ b.scroll
          /\ info.code_hash \in {CanonicalEmptyHash(b), B256_ZERO}
          /\ info.code_size # 0
       \/ /\ b.poseidon
          /\ info.code_hash = POSEIDON_EMPTY
          /\ info.keccak_code_hash # KECCAK_EMPTY

FieldWrite == SetBalance \/ SetNonce \/ SetCodeHash

\* C13 (as stated): is_empty() is true exactly when balance and nonce are zero and
\* the code hash is the empty-code constant of the build's scheme or all-zero
C13_EmptyIffThreeFieldsEmpty ==
    acc_ret.op = "is_empty" =>
        acc_ret.val = Returned(ThreeFieldsEmpty(build, account.info))

\* C13 (amended): after every write of balance, nonce or code hash, is_empty()
\* panics when the build has debug assertions and the scroll feature and the
\* cached code size (or, with poseidon hashes, the keccak hash) contradicts an
\* empty code hash; otherwise it is true exactly when the three fields are empty:
\* it flips to false when a field leaves its empty value and back when reset
C13_EmptyFollowsFieldWrites ==
    [][FieldWrite =>
          LET before == Account_is_empty(build, account)
              after == Account_is_empty(build', account')
          IN  /\ (after.tag = "Panic") <=> IsEmptyAborts(build', account'.info)
              /\ after.tag = "Returned" =>
                    /\ after.val = ThreeFieldsEmpty(build', account'.info)
                    /\ (/\ before = Returned(TRUE)
                        /\ \/ account'.info.balance # 0
                           \/ account'.info.nonce # 0
                           \/ account'.info.code_hash
                                 \notin {CanonicalEmptyHash(build), B256_ZERO})
                       => after.val = FALSE
                    /\ (/\ before = Returned(FALSE)
                        /\ account'.info.balance = 0
                        /\ account'.info.nonce = 0
                        /\ account'.info.code_hash
                              \in {CanonicalEmptyHash(build), B256_ZERO})
                       => after.val = TRUE]_vars

\* the code hash was reset to all-zero in a debug build with the scroll feature:
\* the account is empty again
C13_Witness ==
    /\ acc_ret.op = "set_code_hash"
    /\ build.scroll /\ build.debug_assertions
    /\ account.info.code_hash = B256_ZERO
    /\ account.info.code_size = 0
    /\ Account_is_empty(build, account) = Returned(TRUE)

\* C14 (as stated): is_empty() is true iff balance = 0, nonce = 0 and the code hash
\* is the canonical empty-code constant, and false otherwise
C14_EmptyIffCanonicalHashOnly ==
    acc_ret.op = "is_empty" =>
        acc_ret.val = Returned(/\ account.info.balance = 0
                               /\ account.info.nonce = 0
                               /\ account.info.code_hash = CanonicalEmptyHash(build))

\* C14 (amended): a call of is_empty() returns true iff balance = 0, nonce = 0 and
\* the code hash is the canonical empty-code constant or the all-zero hash, false if
\* one of the three is violated; in a build with debug assertions and the scroll
\* feature it panics instead when the cached code size (or keccak hash) contradicts
\* an empty code hash
C14_EmptyIffCanonicalOrZeroHash ==
    [][IsEmpty =>
          IF IsEmptyAborts(build, account.info)
          THEN acc_ret'.val.tag = "Panic"
          ELSE acc_ret'.val =
                   Returned(/\ account.info.balance = 0
                            /\ account.info.nonce = 0
                            /\ \/ account.info.code_hash = CanonicalEmptyHash(build)
                               \/ account.info.code_hash = B256_ZERO)]_vars

\* is_empty() returned true on an all-zero code hash
C14_Witness ==
    /\ acc_ret = [op |-> "is_empty", val |-> Returned(TRUE)]
    /\ account.info.code_hash = B256_ZERO
    /\ account.info.code_hash # CanonicalEmptyHash(build)

\* C15: mark_warm, on an account and on a storage slot, returns whether the item
\* was cold and leaves it warm; after mark_cold it returns true, a second call in a
\* row returns false and changes nothing, and on a default account it returns false
C15_MarkWarmReturnsWasCold ==
    [][/\ MarkWarm =>
              /\ acc_ret'.val = Returned("Cold" \in account.status)
              /\ "Cold" \notin account'.status
              /\ acc_ret.op = "mark_cold" => acc_ret'.val = Returned(TRUE)
              /\ acc_ret.op = "mark_warm" =>
                     acc_ret'.val = Returned(FALSE) /\ account' = account
              /\ account = Account_default(build) => acc_ret'.val = Returned(FALSE)
       /\ SlotMarkWarm =>
              LET key == acc_ret'.key
              IN  /\ acc_ret'.val = Returned(account.storage[key].is_cold)
                  /\ ~account'.storage[key].is_cold
                  /\ (acc_ret.op = "slot_mark_cold" /\ acc_ret.key = key) =>
                         acc_ret'.val = Returned(TRUE)
                  /\ (acc_ret.op = "slot_mark_warm" /\ acc_ret.key = key) =>
                         acc_ret'.val = Returned(FALSE) /\ account' = account]_vars

\* mark_warm returned true on an account that holds a slot still cold
C15_Witness ==
    /\ acc_ret = [op |-> "mark_warm", val |-> Returned(TRUE)]
    /\ "Cold" \notin account.status
    /\ \E key \in DOMAIN account.storage : account.storage[key].is_cold

StatusOp ==
    MarkTouch \/ UnmarkTouch \/ MarkSelfdestruct \/ UnmarkSelfdestruct
    \/ MarkCreated \/ UnmarkCreated \/ MarkCold \/ MarkWarm

\* the status after setting (on = TRUE) or clearing one bit
WithBit(status, bit, on) == IF on THEN status \cup {bit} ELSE status \ {bit}

\* C16: each status operation sets or clears its own bit and leaves the other
\* bits, LoadedAsNotExisting included, the info and the storage unchanged
C16_StatusOpChangesOwnBitOnly ==
    [][/\ StatusOp =>
              /\ account'.info = account.info
              /\ account'.storage = account.storage
       /\ MarkTouch => account'.status = WithBit(account.status, "Touched", TRUE)
       /\ UnmarkTouch => account'.status = WithBit(account.status, "Touched", FALSE)
       /\ MarkSelfdestruct =>
              account'.status = WithBit(account.status, "SelfDestructed", TRUE)
       /\ UnmarkSelfdestruct =>
              account'.status = WithBit(account.status, "SelfDestructed", FALSE)
       /\ MarkCreated => account'.status = WithBit(account.status, "Created", TRUE)
       /\ UnmarkCreated => account'.status = WithBit(account.status, "Created", FALSE)
       /\ MarkCold => account'.status = WithBit(account.status, "Cold", TRUE)
       /\ MarkWarm => account'.status = WithBit(account.status, "Cold", FALSE)]_vars

\* all five bits are set on an account that holds a storage slot
C16_Witness ==
    /\ account.status =
           {"Created", "SelfDestructed", "Touched", "LoadedAsNotExisting", "Cold"}
    /\ acc_ret.op = "mark_cold"
    /\ account.storage # <<>>

\* the entries a sequence holds
Entries(out) == {out[i] : i \in 1..Len(out)}

\* C17: changed_storage_slots() yields, each once, the (key, slot) pairs of the
\* storage whose present value differs from the original value, leaves the account
\* as it is, and yields the same set when called again
C17_ChangedSlotsAreTheDiff ==
    [][ChangedStorageSlots =>
          LET out == acc_ret'.val.items
          IN  /\ Entries(out) =
                     {<<key, account.storage[key]>> :
                         key \in {k \in DOMAIN account.storage :
                                     account.storage[k].original_value
                                         # account.storage[k].present_value}}
              /\ \A i, j \in 1..Len(out) : out[i] = out[j] => i = j
              /\ account' = account
              /\ acc_ret.op = "changed_storage_slots" =>
                     Entries(out) = Entries(acc_ret.val.items)]_vars

\* one changed and one unchanged slot: the iterator yielded the changed one only
C17_Witness ==
    /\ acc_ret.op = "changed_storage_slots"
    /\ DOMAIN account.storage = StorageKeys
    /\ Len(acc_ret.val.items) = 1
    /\ acc_ret.val.items[1][2].original_value # acc_ret.val.items[1][2].present_value

ThreeFieldsEqual(a, b) ==
    /\ a.balance = b.balance
    /\ a.nonce = b.nonce
    /\ a.code_hash = b.code_hash

\* C18 (as stated): == returns whether balance, nonce and code hash are equal,
\* whatever the cached code, code size and keccak hash are, and never aborts;
\* equal values feed the same data to the hasher
C18_EqIffThreeFieldsEqual ==
    acc_ret.op = "eq" =>
        /\ acc_ret.val = Returned(ThreeFieldsEqual(account.info, acc_ret.other))
        /\ ThreeFieldsEqual(account.info, acc_ret.other) =>
               hash(account.info) = hash(acc_ret.other)

\* the debug assertions of == fail
EqAborts(b, self, other) ==
    /\ b.debug_assertions
    /\ ThreeFieldsEqual(self, other)
    /\ \/ b.scroll /\ self.code_size # other.code_size
       \/ b.poseidon /\ self.keccak_code_hash # other.keccak_code_hash

\* C18 (amended): == returns whether balance, nonce and code hash are equal,
\* whatever the cached code is; it ignores the cached code size and the keccak hash
\* too, except that a build with debug assertions and the scroll feature panics
\* when the three fields are equal and the code sizes (or, with poseidon hashes,
\* the keccak hashes) differ; values that compare equal feed the same data to the
\* hasher
C18_EqIffThreeFieldsEqualOrAborts ==
    acc_ret.op = "eq" =>
        /\ IF EqAborts(build, account.info, acc_ret.other)
           THEN acc_ret.val.tag = "Panic"
           ELSE acc_ret.val = Returned(ThreeFieldsEqual(account.info, acc_ret.other))
        /\ acc_ret.val = Returned(TRUE) => hash(account.info) = hash(acc_ret.other)

\* two values with different cached code and code size compared equal
C18_Witness ==
    /\ acc_ret.op = "eq"
    /\ acc_ret.val = Returned(TRUE)
    /\ build.scroll
    /\ acc_ret.other.code # account.info.code
    /\ acc_ret.other.code_size # account.info.code_size

(***************************************************************************)
(* Properties of the fee oracle                                            *)
(***************************************************************************)
\* the least q with q * b >= a, for b > 0
CeilDiv(a, b) == IF a = 0 THEN 0 ELSE ((a - 1) \div b) + 1

\* the number of positions of a payload that hold a zero / a non-zero byte
ZeroBytes(input) == Cardinality({i \in 1..Len(input) : input[i] = 0})
NonZeroBytes(input) == Cardinality({i \in 1..Len(input) : input[i] # 0})

\* the gas of a payload as the sum over its bytes
PayloadGas(input) == 4 * ZeroBytes(input) + 16 * NonZeroBytes(input)

\* floor(min(MAX, (gas + overhead + 64) * base_fee * scalar) / 10^9), evaluated
\* without forming a number above MAX: the product reaches MAX exactly when
\* gas + overhead + 64 >= ceil(ceil(MAX / scalar) / base_fee)
ExactCost(self, input) ==
    IF self.l1_base_fee = 0 \/ self.l1_base_fee_scalar = 0
    THEN 0
    ELSE LET least == CeilDiv(CeilDiv(MaxU256, self.l1_base_fee_scalar),
                              self.l1_base_fee)
         IN  IF self.l1_fee_overhead >= least - PayloadGas(input) - 64
             THEN MaxU256 \div 1000000000
             ELSE ((PayloadGas(input) + self.l1_fee_overhead + 64)
                      * self.l1_base_fee * self.l1_base_fee_scalar) \div 1000000000

\* C19: calculate_tx_l1_cost(payload) is the product of gas + overhead + 64, base
\* fee and scalar, capped at the type maximum, divided by 10^9 rounding down; an
\* empty payload with overhead 0, base fee 1 and scalar 1 costs 0
C19_L1CostIsCappedProductOverPrecision ==
    oracle.op = "calculate_tx_l1_cost" =>
        /\ oracle.val = ExactCost(oracle.self, oracle.input)
        /\ oracle.val >= 0 /\ oracle.val <= MaxU256
        /\ (/\ oracle.input = <<>>
            /\ oracle.self = [l1_base_fee |-> 1, l1_fee_overhead |-> 0,
                              l1_base_fee_scalar |-> 1])
           => oracle.val = 0

\* a cost above zero whose sum saturated: the overhead alone is at the maximum
C19_Witness ==
    /\ oracle.op = "calculate_tx_l1_cost"
    /\ oracle.self.l1_fee_overhead = MaxU256
    /\ oracle.self.l1_base_fee = 1
    /\ oracle.self.l1_base_fee_scalar = 1
    /\ oracle.input # <<>>
    /\ oracle.val = 2

\* C20: data_gas(payload) is 4 per zero byte plus 16 per non-zero byte, 0 for the
\* empty payload, whatever the three fee parameters of the L1BlockInfo are
C20_DataGasCountsBytes ==
    oracle.op = "data_gas" =>
        /\ oracle.val = PayloadGas(oracle.input)
        /\ oracle.input = <<>> => oracle.val = 0

\* a payload with a zero and a non-zero byte, on an oracle with non-zero parameters
C20_Witness ==
    /\ oracle.op = "data_gas"
    /\ ZeroBytes(oracle.input) >= 1
    /\ NonZeroBytes(oracle.input) >= 1
    /\ oracle.val = 20
    /\ oracle.self.l1_base_fee # 0
    /\ oracle.self.l1_fee_overhead # 0
    /\ oracle.self.l1_base_fee_scalar # 0

\* the first of the three oracle reads, in slot order, that fails
FirstFailing(failing) == CHOOSE k \in failing : \A j \in failing : k <= j

\* C21: try_fetch returns slots 1, 2 and 3 of the oracle as l1_base_fee,
\* l1_fee_overhead and l1_base_fee_scalar; when a read fails load_accounts returns
\* that read's error as a database error and the context's L1 block info stays unset
C21_FetchReadsThreeSlotsOrFails ==
    [][LoadAccounts
          => IF ret'.db_errors = {}
             THEN /\ ret'.res = Ok
                  /\ l1_block_info' = Some([l1_base_fee |-> db[1],
                                            l1_fee_overhead |-> db[2],
                                            l1_base_fee_scalar |-> db[3]])
             ELSE /\ ret'.res = ErrDatabaseOf(DbError(FirstFailing(ret'.db_errors)))
                  /\ l1_block_info' = l1_block_info
                  /\ l1_block_info' = None]_vars

\* the reads of slots 2 and 3 fail: the error of slot 2 came back, nothing is set
C21_Witness ==
    /\ ret.op = "load_accounts"
    /\ ret.db_errors = {2, 3}
    /\ ret.res = ErrDatabaseOf(DbError(2))
    /\ db = <<10000000, 36, 2>>
    /\ l1_block_info = None


\* a settlement handler ran: deduct_caller or either reward_beneficiary
SettlementHandler == DeductCaller \/ RewardBeneficiary \/ HandlerRewardBeneficiary

\* C22: when the load of the caller account (deduct_caller) or of the beneficiary
\* account (reward_beneficiary) fails in the backing store, the handler returns the
\* database error and the journaled state, every balance, nonce and status, is as
\* before the call
C22_LoadFailureIsDatabaseErrorAndNoChange ==
    [][(SettlementHandler /\ ~ret'.load_ok)
          => /\ ret'.res = ErrDatabase
             /\ ret'.res.err = "Database"
             /\ state' = state]_vars

\* the caller of an ordinary transaction with a gas fee of 50 could not be loaded:
\* the database error came back and the balance of 50 is still there
C22_Witness ==
    /\ ret.op = "deduct_caller"
    /\ ~ret.load_ok
    /\ ret.res = ErrDatabase
    /\ ~env.is_l1_msg
    /\ env.gas_limit = 10
    /\ env.effective_gas_price = 5
    /\ Caller = Account(50, 0, {})

\* the handler has its account but lacks the L1 block info or the payload of an
\* ordinary transaction
L1DataMissing == ~env.is_l1_msg /\ (l1_block_info = None \/ env.rlp_bytes = None)

\* an internal failure: the Custom error or the abort of expect(), never the
\* insufficient-funds error nor the database error
IsInternalFailure(r) ==
    \/ r.tag = "Panic"
    \/ r.tag = "Err" /\ r.err = "Custom"

\* C23: when deduct_caller or reward_beneficiary of the handler register handles an
\* ordinary transaction without L1 block info or without payload bytes, the call
\* ends in an internal failure and the transaction goes no further; nothing is
\* credited to the coinbase
C23_MissingL1DataIsInternalFailure ==
    [][((DeductCaller \/ RewardBeneficiary) /\ ret'.load_ok /\ L1DataMissing)
          => /\ IsInternalFailure(ret'.res)
             /\ ~IsLackOfFund(ret'.res)
             /\ ret'.res.tag # "Ok"
             /\ stage' = "failed"
             /\ state'[env.coinbase].info.balance <= state[env.coinbase].info.balance]_vars

\* deduct_caller ran with a payload but without load_accounts before it: expect()
\* aborted
C23_Witness ==
    /\ ret.op = "deduct_caller"
    /\ ret.load_ok
    /\ ret.res = Panic("L1BlockInfo should be loaded")
    /\ ~env.is_l1_msg
    /\ env.rlp_bytes = Some(<<0, 1>>)
    /\ l1_block_info = None
    /\ stage = "failed"

\* the handler says that the L1 block info is missing
ReportsMissingL1Info(r) ==
    \/ r.tag = "Panic"
    \/ /\ r.tag = "Err"
       /\ r.err = "Custom"
       /\ r.msg = "[SCROLL] Failed to load L1 block information."

C25_RefundIsCapped ==
    [][CalculateGasRefund
          => IF ret'.cfg.is_gas_refund_disabled
             THEN ret'.val = 0
             ELSE IF ret'.cfg.london
             THEN ret'.val <= gas'.spent \div 5
             ELSE ret'.val <= gas'.spent \div 2]_vars

\* a refund counter of 4 on 6 gas spent came back as 1 under London
C25_Witness ==
    /\ ret.op = "calculate_gas_refund"
    /\ ~ret.cfg.is_gas_refund_disabled
    /\ ret.cfg.london
    /\ gas = [spent |-> 6, refunded |-> 4]
    /\ ret.val = 1

(***************************************************************************)
(* Properties of the table that analyze builds                             *)
(***************************************************************************)
\* C26: every start of an instruction that holds JUMPDEST is flagged in the table
\* that analyze returns, and it is flagged by the iteration that reads it, in the
\* first loop as in the second
C26_EveryJumpdestInstructionIsFlagged ==
    /\ [](scan.phase = "done" =>
            \A p \in InstructionStarts(scan.code, Len(scan.code)) :
                scan.code[p + 1] = JUMPDEST => scan.st.jumps[p + 1].is_jump)
    /\ [][((FirstGasBlockStep \/ GasBlockStep) /\ scan.code[scan.st.index + 1] = JUMPDEST)
            => scan'.st.jumps[scan.st.index + 1].is_jump]_vars

\* analyze returned on a code that starts with a JUMPDEST, which ends the first gas
\* block, and holds another one further on: both are flagged
C26_Witness ==
    /\ scan.phase = "done"
    /\ Len(scan.code) >= 2
    /\ scan.code[1] = JUMPDEST
    /\ scan.st.jumps[1].is_jump
    /\ \E q \in InstructionStarts(scan.code, Len(scan.code)) :
        /\ q >= 1
        /\ scan.code[q + 1] = JUMPDEST
        /\ scan.st.jumps[q + 1].is_jump

\* the cost of the instruction at position p and whether it ends a gas block
Cost(code, p) == opcode_gas(code[p + 1]).gas
EndsBlock(code, p) == opcode_gas(code[p + 1]).is_gas_block_end

RECURSIVE SumCost(_, _)
SumCost(code, S) ==
    IF S = {} THEN 0
    ELSE LET p == CHOOSE x \in S : TRUE
         IN  Cost(code, p) + SumCost(code, S \ {p})

\* the block-ending instructions of a code
BlockEnds(code) ==
    {p \in InstructionStarts(code, Len(code)) : EndsBlock(code, p)}

\* the instructions after position p up to and including the next block-ending
\* instruction, or up to the end of the code when there is none; p = -1 gives the
\* first gas block
BlockAfter(code, p) ==
    {r \in InstructionStarts(code, Len(code)) :
        /\ r > p
        /\ \A q \in BlockEnds(code) : ~(q > p /\ q < r)}

\* C27: in the table that analyze returns first_gas_block is the cost of the
\* instructions up to and including the first block-ending one, the entry of a
\* block-ending instruction at p is the cost of the instructions after p up to and
\* including the next block-ending one or up to the end of the code, and every
\* other entry is 0
C27_GasPerBlockIsExact ==
    scan.phase = "done" =>
        /\ scan.st.first_gas_block = SumCost(scan.code, BlockAfter(scan.code, -1))
        /\ \A p \in 0..(Len(scan.code) - 1) :
               scan.st.jumps[p + 1].gas_block =
                   IF p \in BlockEnds(scan.code)
                   THEN SumCost(scan.code, BlockAfter(scan.code, p))
                   ELSE 0
        /\ (\A p \in 0..(Len(scan.code) - 1) : scan.code[p + 1] = STOP)
               => /\ scan.st.first_gas_block = 0
                  /\ \A p \in 0..(Len(scan.code) - 1) : scan.st.jumps[p + 1].gas_block = 0

\* JUMP STOP ADD ADD: the first gas block is the JUMP, the block after it is the
\* STOP alone, and the two ADD make the trailing block, written at the STOP
C27_Witness ==
    /\ scan.phase = "done"
    /\ scan.code = <<JUMP, STOP, ADD, ADD>>
    /\ scan.st.first_gas_block = 8
    /\ scan.st.jumps[1].gas_block = 0
    /\ scan.st.jumps[2].gas_block = 6

(***************************************************************************)
(* Round trips and frames of the Bytecode conversions                      *)
(***************************************************************************)
\* the logical code of a Bytecode: the first len() bytes of its buffer
LogicalCode(v) == SubSeq(v.bytecode, 1, Bytecode_len(v))

\* C28: unlock of lock is to_analysed of the original, field by field; to_analysed
\* hands an Analysed value back as it is; original_bytecode_slice of the locked
\* view is the logical code, which for a value made by new_raw is the code given
C28_LockUnlockIsToAnalysed ==
    [][/\ (bc_op' = "lock" /\ Lock) =>
              LET a == to_analysed(obj.val)
                  u == unlock(obj'.val)
              IN  /\ u.bytecode = a.bytecode
                  /\ u.state.tag = "Analysed"
                  /\ u.state.len = a.state.len
                  /\ u.hash = a.hash
                  /\ u.keccak_hash = a.keccak_hash
                  /\ u.state.jumptable = a.state.jumptable
                  /\ u = a
       /\ (bc_op' = "unlock" /\ Unlock) =>
              /\ obj'.val.bytecode = obj.val.bytecode
              /\ obj'.val.state = Analysed(obj.val.len, obj.val.jumptable)
              /\ obj'.val.hash = obj.val.hash
              /\ obj'.val.keccak_hash = obj.val.keccak_hash
       /\ (bc_op' = "to_analysed" /\ obj.val.state.tag = "Analysed" /\ ToAnalysed)
            => obj'.val = obj.val
       /\ (bc_op' = "lock" /\ obj.val.state.tag = "Analysed" /\ Lock)
            => unlock(obj'.val) = obj.val
       /\ (bc_op' = "lock" /\ Lock)
            => original_bytecode_slice(obj'.val) = Returned(LogicalCode(obj.val))
       /\ (bc_op' = "original_bytecode_slice" /\ OriginalBytecodeSlice) =>
              obj'.slice = Returned(SubSeq(obj.val.bytecode, 1, obj.val.len))
       /\ bc_op' = "new_raw" =>
              /\ obj'.val.state = Raw
              /\ original_bytecode_slice(lock(obj'.val)) = Returned(obj'.val.bytecode)]_vars

\* the locked view of PUSH1 JUMPDEST, padded to 35 bytes, gave the two bytes back
C28_Witness ==
    /\ bc_op = "original_bytecode_slice"
    /\ obj.kind = "Locked"
    /\ Len(obj.val.bytecode) = 35
    /\ obj.slice = Returned(<<PUSH1, JUMPDEST>>)

\* what the accessors of the value in hand answer, whichever type holds it
HashOf(o) == o.val.hash
KeccakHashOf(o) == o.val.keccak_hash
LenOf(o) == IF o.kind = "Locked" THEN BytecodeLocked_len(o.val) ELSE Bytecode_len(o.val)
IsEmptyOf(o) ==
    IF o.kind = "Locked" THEN BytecodeLocked_is_empty(o.val) ELSE Bytecode_is_empty(o.val)
LogicalCodeOf(o) == SubSeq(o.val.bytecode, 1, LenOf(o))

\* C29: to_checked, to_analysed, lock and unlock leave both hashes, len(),
\* is_empty() and the first len bytes of the buffer as they were
C29_ConversionsKeepIdentity ==
    [][(/\ bc_op' \in {"to_checked", "to_analysed", "lock", "unlock"}
        /\ (ToChecked \/ ToAnalysed \/ Lock \/ Unlock))
          => /\ HashOf(obj') = HashOf(obj)
             /\ KeccakHashOf(obj') = KeccakHashOf(obj)
             /\ LenOf(obj') = LenOf(obj)
             /\ IsEmptyOf(obj') = IsEmptyOf(obj)
             /\ IsEmptyOf(obj') = (LenOf(obj') = 0)
             /\ Len(obj'.val.bytecode) >= LenOf(obj')
             /\ LogicalCodeOf(obj') = LogicalCodeOf(obj)]_vars

\* JUMPDEST ADD went from raw to locked and back: hashes of the two bytes, length 2
\* and the two bytes at the head of the 35-byte buffer
C29_Witness ==
    /\ bc_op = "unlock"
    /\ obj.kind = "Bytecode"
    /\ HashOf(obj) = hash_code_poseidon(<<JUMPDEST, ADD>>)
    /\ KeccakHashOf(obj) = keccak256(<<JUMPDEST, ADD>>)
    /\ LenOf(obj) = 2
    /\ ~IsEmptyOf(obj)
    /\ Len(obj.val.bytecode) = 35
    /\ LogicalCodeOf(obj) = <<JUMPDEST, ADD>>

\* the hashes of a logical code: the constants of the empty code, else the
\* hashes of its bytes
PoseidonOfCode(code) == IF code = <<>> THEN POSEIDON_EMPTY ELSE hash_code_poseidon(code)
KeccakOfCode(code) == IF code = <<>> THEN KECCAK_EMPTY ELSE keccak256(code)

\* a constructor made the value in hand
Constructed == bc_op \in {"new", "new_raw", "new_checked", "new_analysed"}

\* C30: a Bytecode that new, new_raw, new_checked or new_analysed made carries
\* the hashes of its logical code, the first len bytes of the buffer, so that the
\* same logical code has the same hashes whichever constructor made it
C30_HashesAreOfLogicalCode ==
    Constructed =>
        /\ obj.val.hash = PoseidonOfCode(LogicalCode(obj.val))
        /\ obj.val.keccak_hash = KeccakOfCode(LogicalCode(obj.val))

(***************************************************************************)
(* The L1 data fee across one transaction                                  *)
(***************************************************************************)
\* the L1 data fee of the transaction in hand under the L1 block info in hand
L1Cost == calculate_tx_l1_cost(l1_block_info.val, env.rlp_bytes.val)

\* C31: for an ordinary transaction deduct_caller takes L1Cost from what the gas
\* debit left to the caller, reward_beneficiary adds L1Cost (saturating) to the
\* coinbase after the gas fee, and between the two neither the transaction nor
\* the L1 block info changes, so the fee taken is the fee given
C31_L1FeeTakenIsL1FeeGiven ==
    [][/\ (ret'.op = "deduct_caller" /\ DeductCaller /\ ret'.res = Ok /\ ~env.is_l1_msg)
            => /\ deduct_caller_inner(Caller, env).info.balance
                      - state'[env.caller].info.balance = L1Cost
               /\ L1Cost' = L1Cost
       /\ (ret'.op = "execute" /\ Execute)
            => /\ env' = env
               /\ l1_block_info' = l1_block_info
               /\ state' = state
       /\ (/\ ret'.op = "reward_beneficiary"
           /\ RewardBeneficiary
           /\ ret'.res = Ok
           /\ ~env.is_l1_msg)
            => LET base == saturating_add(Coinbase.info.balance,
                                         wrapping_mul(env.effective_gas_price,
                                                      gas.spent - gas.refunded))
               IN  /\ state'[env.coinbase].info.balance = saturating_add(base, L1Cost)
                   /\ L1Cost <= MaxU256 - base
                        => state'[env.coinbase].info.balance - base = L1Cost
                   /\ L1Cost' = L1Cost]_vars

\* a transaction with no gas fee and an L1 fee of 2: the caller went from 50 to
\* 48, the coinbase from 0 to 2
C31_Witness ==
    /\ ret.op = "reward_beneficiary"
    /\ ret.res = Ok
    /\ ~env.is_l1_msg
    /\ env.coinbase = "coinbase"
    /\ env.gas_limit = 0
    /\ L1Cost = 2
    /\ Caller.info.balance = 48
    /\ Coinbase.info.balance = 2

(***************************************************************************)
(* The gas paid to the coinbase                                            *)
(***************************************************************************)
\* C32: the refund that reaches reward_beneficiary is the one capped by
\* calculate_gas_refund, so it is at most the gas spent and gas_spent -
\* gas_refunded does not underflow; whatever the call returns, the balance of the
\* coinbase after it is at least the balance before
C32_RewardNeverLowersCoinbase ==
    [][/\ (ret'.op = "execute" /\ Execute)
            => /\ gas'.refunded >= 0
               /\ gas'.refunded <= gas'.spent
       /\ (/\ ret'.op \in {"reward_beneficiary", "handler_reward_beneficiary"}
           /\ (RewardBeneficiary \/ HandlerRewardBeneficiary))
            => /\ as_u64(gas.refunded) <= gas.spent
               /\ gas.spent - as_u64(gas.refunded) >= 0
               /\ gas.spent - as_u64(gas.refunded) <= MaxU64
               /\ state'[env.coinbase].info.balance >= Coinbase.info.balance]_vars

\* 10 gas spent, 5 refunded before London, at the highest price, on a coinbase 20
\* below U256::MAX: the balance went up to U256::MAX and no further
C32_Witness ==
    /\ ret.op = "handler_reward_beneficiary"
    /\ ret.res = Ok
    /\ gas = [spent |-> 10, refunded |-> 5]
    /\ env.effective_gas_price = MaxU256
    /\ env.coinbase = "coinbase"
    /\ Coinbase.info.balance = MaxU256

====
